----------------------------- MODULE ShopFront -----------------------------
(***************************************************************************)
(* The articles of the shop: an administrator's create, update and remove, *)
(* the pictures kept beside the rows as files, the cart's checkout and the *)
(* lines booked when Stripe reports it paid (control-plane/src/donations). *)
(* A request reads the row, writes it and then changes files: other        *)
(* requests, the reading of a picture among them, come between.  A picture *)
(* is known by the number of its upload.                                   *)
(***************************************************************************)
EXTENDS Naturals, FiniteSets, FiniteSetsExt

CONSTANTS
    Articles,       \* ids of shop_items rows
    Prices,         \* prices in cents
    Editors,        \* requests that may be in progress at once
    StripeAccounts, \* Stripe accounts an administrator may configure
    MaxItems,       \* MAX_SHOP_ITEMS
    MaxEdits,       \* bound on the requests about articles
    NoRow           \* no row; no account

ASSUME ShopFrontAssumption ==
    /\ Prices \subseteq Nat \ {0} /\ Prices # {} /\ IsFiniteSet(Articles) /\ Articles # {}
    /\ MaxItems \in Nat /\ MaxEdits \in Nat
    /\ NoRow \notin StripeAccounts /\ NoRow \notin Articles
    /\ NoRow \notin [price : Nat, active : BOOLEAN, ext : {"webp", "jpg"},
                     list : SUBSET {1}, single : SUBSET {1}]

VARIABLES
    item,       \* the shop_items rows
    files,      \* the picture files: article, extension, size and upload
    edit,       \* the requests in progress
    uploads,    \* pictures uploaded so far
    newest,     \* the upload each article shows, as its administrators see it
    blurred,    \* articles whose requests overlapped or were cut off
    edits,      \* requests so far
    stripe,     \* the Stripe account configured for the organisation
    sale        \* a cart's checkout: its account, its lines and what was booked

frontVars == <<item, files, edit, uploads, newest, blurred, edits, stripe, sale>>

Free == [op |-> "none", pc |-> "idle", a |-> NoRow, copy |-> NoRow, v |-> 0]
NoSale == [state |-> "none", account |-> NoRow, lines |-> {}, total |-> 0, booked |-> {}]

\* Rows older than the thumbnails have a picture as it was uploaded, and one grant
\* in columns of its own.
LegacyRow(price) ==
    [price |-> price, active |-> TRUE, ext |-> "jpg", list |-> {}, single |-> {1}]

FrontInit ==
    /\ \E old \in SUBSET {CHOOSE a \in Articles : TRUE} :
        /\ item = [a \in Articles |-> IF a \in old THEN LegacyRow(Min(Prices)) ELSE NoRow]
        /\ files = {[a |-> a, ext |-> "jpg", size |-> "master", v |-> 1] : a \in old}
    /\ edit = [e \in Editors |-> Free]
    /\ uploads = 1 /\ newest = [a \in Articles |-> 1]
    /\ blurred = {} /\ edits = 0
    /\ stripe = NoRow /\ sale = NoSale

-----------------------------------------------------------------------------
(* Requests about articles.                                                *)

Present == {a \in Articles : item[a] # NoRow}
Busy(a) == \E e \in Editors : edit[e].a = a
Unknown == {a \in Articles : /\ item[a] = NoRow /\ ~Busy(a)
                            /\ \A x \in files \cup sale.lines : x.a # a}

\* A field of a request: {} when it is left out, else the set of its value.
Field(given, kept) == IF given = {} THEN kept ELSE CHOOSE x \in given : TRUE

\* A request begins; another one about the same article may be in progress.
Opens(e, r) ==
    /\ edit[e] = Free /\ edits < MaxEdits /\ edits' = edits + 1
    /\ edit' = [edit EXCEPT ![e] = r]
    /\ blurred' = IF Busy(r.a) THEN blurred \cup {r.a} ELSE blurred
    /\ UNCHANGED <<item, files, uploads, newest, stripe, sale>>

At(e, op, pc) == edit[e].op = op /\ edit[e].pc = pc
Moves(e, pc) == edit' = [edit EXCEPT ![e].pc = pc]
Closes(e) == edit' = [edit EXCEPT ![e] = Free]

\* The row is gone, a file is missing, or the process dies: what was done stays.
Abandon(e) ==
    /\ edit[e] # Free
    /\ Closes(e)
    /\ blurred' = blurred \cup {edit[e].a}
    /\ UNCHANGED <<item, files, uploads, newest, edits, stripe, sale>>

\* The two files of a picture at an extension.
FilesAt(a, ext) == {f \in files : f.a = a /\ f.ext = ext}
Pair(a, ext, v) == {[a |-> a, ext |-> ext, size |-> s, v |-> v] : s \in {"master", "thumb"}}

\* writeImage: both sizes, always as webp.
WriteImage(a, v) == files' = (files \ FilesAt(a, "webp")) \cup Pair(a, "webp", v)

\* parseShopGrantFields: the list, or what the row has, from either place.
ParseShopGrantFields(given, row) ==
    LET grants == Field(given, IF row.list # {} THEN row.list ELSE row.single)
    IN [list |-> grants, single |-> grants]

\* viewGrantItems, and the same rule in buildDonationLines.
GrantsOf(row) == IF row.list # {} THEN row.list ELSE row.single

Row(price, active, ext, grants) ==
    [price |-> price, active |-> active, ext |-> ext, list |-> grants.list, single |-> grants.single]

\* create: counts, refuses above the limit, and creates the row with a new picture.
CreateCounts(e) ==
    /\ Cardinality(Present) < MaxItems
    /\ Opens(e, [Free EXCEPT !.op = "create", !.pc = "row"])

CreateRow(e, a, price, active, given) ==
    /\ At(e, "create", "row") /\ a \in Unknown
    /\ item' = [item EXCEPT ![a] = Row(price, active, "webp", ParseShopGrantFields({given}, NoRow))]
    /\ uploads' = uploads + 1 /\ newest' = [newest EXCEPT ![a] = uploads + 1]
    /\ edit' = [edit EXCEPT ![e] = [@ EXCEPT !.a = a, !.v = uploads + 1, !.pc = "write"]]
    /\ UNCHANGED <<files, blurred, edits, stripe, sale>>

\* update and remove read the row first.
EditReads(e, op, a) ==
    /\ a \in Present
    /\ Opens(e, [op |-> op, pc |-> "row", a |-> a, copy |-> item[a], v |-> 0])

\* update: what the request leaves out is written back from the copy.
UpdateRow(e, price, active, given, picture) ==
    LET r == edit[e] IN
    /\ At(e, "update", "row") /\ item[r.a] # NoRow
    /\ item' = [item EXCEPT ![r.a] =
                  Row(Field(price, r.copy.price), Field(active, r.copy.active),
                      IF picture THEN "webp" ELSE @.ext,
                      ParseShopGrantFields(given, r.copy))]
    /\ IF picture
       THEN /\ uploads' = uploads + 1 /\ newest' = [newest EXCEPT ![r.a] = uploads + 1]
            /\ edit' = [edit EXCEPT ![e] = [@ EXCEPT !.v = uploads + 1, !.pc = "unlink"]]
       ELSE Closes(e) /\ UNCHANGED <<uploads, newest>>
    /\ UNCHANGED <<files, blurred, edits, stripe, sale>>

RemoveRow(e) ==
    /\ At(e, "remove", "row") /\ item[edit[e].a] # NoRow
    /\ item' = [item EXCEPT ![edit[e].a] = NoRow]
    /\ Moves(e, "unlink")
    /\ UNCHANGED <<files, uploads, newest, blurred, edits, stripe, sale>>

\* Mutant: only the picture itself is unlinked, not its thumbnail.
Unlink_MasterOnly(e) ==
    /\ edit[e].op \in {"update", "remove"} /\ edit[e].pc = "unlink"
    /\ files' = files \ {f \in FilesAt(edit[e].a, edit[e].copy.ext) : f.size = "master"}
    /\ IF edit[e].op = "update" THEN Moves(e, "write") ELSE Closes(e)
    /\ UNCHANGED <<item, uploads, newest, blurred, edits, stripe, sale>>

\* The files at the extension that was read go.
Unlink(e) ==
    /\ edit[e].op \in {"update", "remove"} /\ edit[e].pc = "unlink"
    /\ files' = files \ FilesAt(edit[e].a, edit[e].copy.ext)
    /\ IF edit[e].op = "update" THEN Moves(e, "write") ELSE Closes(e)
    /\ UNCHANGED <<item, uploads, newest, blurred, edits, stripe, sale>>

Write(e) ==
    /\ edit[e].op \in {"create", "update"} /\ edit[e].pc = "write"
    /\ WriteImage(edit[e].a, edit[e].v)
    /\ Closes(e)
    /\ UNCHANGED <<item, uploads, newest, blurred, edits, stripe, sale>>

-----------------------------------------------------------------------------
(* Pictures.                                                               *)

\* The master at the extension a request has read.
Masters(r) == {f \in FilesAt(r.a, r.copy.ext) : f.size = "master"}

\* A request that has read a picture works on that upload from then on.
Loads(e, op, pc) ==
    LET r == edit[e] IN
    /\ At(e, op, "row") /\ Masters(r) # {}
    /\ \E f \in Masters(r) : edit' = [edit EXCEPT ![e] = [@ EXCEPT !.v = f.v, !.pc = pc]]
    /\ UNCHANGED <<item, files, uploads, newest, blurred, edits, stripe, sale>>

\* image, size thumb: a missing thumbnail is made from the master, at its extension.
ThumbReads(e, a) ==
    /\ a \in Present
    /\ ~\E f \in FilesAt(a, item[a].ext) : f.size = "thumb"
    /\ EditReads(e, "thumb", a)

ThumbLoads(e) == Loads(e, "thumb", "save")

ThumbSaves(e) ==
    LET r == edit[e]
        thumb == [a |-> r.a, ext |-> r.copy.ext, size |-> "thumb", v |-> r.v] IN
    /\ At(e, "thumb", "save")
    /\ files' = {f \in files : [f EXCEPT !.v = r.v] # thumb} \cup {thumb}
    /\ Closes(e)
    /\ UNCHANGED <<item, uploads, newest, blurred, edits, stripe, sale>>

\* reprocessAllImages: the body of its loop for one row.
ReprocessReads(e, a) == EditReads(e, "reprocess", a)
ReprocessLoads(e) == Loads(e, "reprocess", "write")

ReprocessWrites(e) ==
    LET r == edit[e] IN
    /\ At(e, "reprocess", "write")
    /\ WriteImage(r.a, r.v)
    /\ IF r.copy.ext = "webp" THEN Closes(e) ELSE Moves(e, "unlink")
    /\ UNCHANGED <<item, uploads, newest, blurred, edits, stripe, sale>>

\* The old files go, then the row names the new extension.
ReprocessRow(e) ==
    LET r == edit[e] IN
    /\ At(e, "reprocess", "unlink") /\ item[r.a] # NoRow
    /\ files' = files \ FilesAt(r.a, r.copy.ext)
    /\ item' = [item EXCEPT ![r.a].ext = "webp"]
    /\ Closes(e)
    /\ UNCHANGED <<uploads, newest, blurred, edits, stripe, sale>>

-----------------------------------------------------------------------------
(* Buying.                                                                 *)

\* updateStripe: an administrator stores the keys of an account, or removes them.
SetStripe(s) ==
    /\ stripe # s
    /\ stripe' = s
    /\ UNCHANGED <<item, files, edit, uploads, newest, blurred, edits, sale>>

\* stripeCredentialsForOrg finds an account; listCatalog and createCartCheckout show and
\* sell what is switched on.
Configured == stripe # NoRow
Offered == {a \in Present : item[a].active}

\* parseShopItemIds: some articles, none of them twice.
Carts == SUBSET Articles \ {{}}

\* What Stripe charges for the lines of a session, and what lines that were booked say.
Total(lines) == MapThenSumSet(LAMBDA l : l.cents, lines)

\* createCartCheckout, createCheckoutSession: every article of the cart, at its price.
CartCheckout(cart) ==
    /\ sale = NoSale /\ Configured /\ cart \subseteq Offered
    /\ LET lines == {[a |-> a, cents |-> item[a].price] : a \in cart} IN
       sale' = [NoSale EXCEPT !.state = "paid", !.account = stripe, !.lines = lines,
                              !.total = Total(lines)]
    /\ UNCHANGED <<item, files, edit, uploads, newest, blurred, edits, stripe>>

\* buildDonationLines: the amount that was charged; the rest as the article is now.
BookedLine(l) ==
    [a |-> IF item[l.a] = NoRow THEN NoRow ELSE l.a, cents |-> l.cents,
     grants |-> IF item[l.a] = NoRow THEN {} ELSE GrantsOf(item[l.a]), of |-> l.a]

\* An event is signed by the account it belongs to, and verifies only while that account
\* is the configured one.
Verifies(account) == stripe = account

\* handle: the event of a paid session; Stripe tries a refused one again.
Webhook ==
    /\ sale.state = "paid" /\ Verifies(sale.account)
    /\ sale' = [sale EXCEPT !.state = "booked", !.booked = {BookedLine(l) : l \in sale.lines}]
    /\ UNCHANGED <<item, files, edit, uploads, newest, blurred, edits, stripe>>

\* What an update may name: nothing, or one of the fields.
Changes ==
    {[price |-> {}, active |-> {}, given |-> {}]}
    \cup {[price |-> {x}, active |-> {}, given |-> {}] : x \in Prices}
    \cup {[price |-> {}, active |-> {x}, given |-> {}] : x \in BOOLEAN}
    \cup {[price |-> {}, active |-> {}, given |-> {{}}]}

FrontEdit ==
    \E e \in Editors :
        \/ CreateCounts(e)
        \/ \E a \in Articles :
             \/ EditReads(e, "update", a) \/ EditReads(e, "remove", a)
             \/ ThumbReads(e, a) \/ ReprocessReads(e, a)
             \/ \E price \in Prices : CreateRow(e, a, price, TRUE, {1})
        \/ \E c \in Changes, picture \in BOOLEAN :
             UpdateRow(e, c.price, c.active, c.given, picture)
        \/ RemoveRow(e) \/ Unlink(e) \/ Write(e) \/ Abandon(e)
        \/ ThumbLoads(e) \/ ThumbSaves(e)
        \/ ReprocessLoads(e) \/ ReprocessWrites(e) \/ ReprocessRow(e)

Buying ==
    \/ \E s \in StripeAccounts \cup {NoRow} : SetStripe(s)
    \/ \E cart \in Carts : CartCheckout(cart)
    \/ Webhook

FrontNext == FrontEdit \/ Buying

FrontSpec == FrontInit /\ [][FrontNext]_frontVars

-----------------------------------------------------------------------------
\* At rest, an article whose requests never overlapped shows its newest picture in
\* both sizes (a picture of the old kind may lack the small one) and no other file
\* of it is left, whatever was replaced, converted or removed on the way.
PicturesMatch ==
    \A a \in Articles \ blurred :
        ~Busy(a) =>
            IF item[a] = NoRow THEN ~\E f \in files : f.a = a
            ELSE LET whole == Pair(a, item[a].ext, newest[a])
                     mine == {f \in files : f.a = a} IN
                 \/ mine = whole
                 \/ item[a].ext = "jpg" /\ mine = {f \in whole : f.size = "master"}

\* The lines booked for a cart add up to what Stripe charged, one for each article,
\* although articles are repriced, switched off or removed before the event comes.
LinesAddUp ==
    sale.state = "booked" =>
        /\ Total(sale.booked) = sale.total
        /\ Cardinality(sale.booked) = Cardinality(sale.lines)

\* The catalogue is what its administrators made it, picture by picture, and what was
\* bought from it is what was paid for.
CatalogueKept == PicturesMatch /\ LinesAddUp

=============================================================================
