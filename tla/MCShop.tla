------------------------------- MODULE MCShop -------------------------------
(* What a player is given: a donation with its ledger and its grants (Shop), *)
(* for an article of two items, of which one can be given; the catalogue and *)
(* its pictures (ShopFront), with two articles; and the rewards for playing  *)
(* and donating (Milestones).  There are two requests at a time.  The three  *)
(* share no rows and no files, so that a behaviour follows one of them.      *)
(* Ledger and grants of a donation meet in the donation's status only: one   *)
(* behaviour has a donation without items and every refund, the other items, *)
(* the refund of the whole and no other donation.                            *)
EXTENDS Shop, ShopFront, Milestones, TLC

CONSTANTS h1, h2    \* requests, whichever part they are made to

VARIABLE side       \* the part that a behaviour follows

Symmetry == Permutations({h1, h2})

ShopInit ==
    /\ Init /\ FrontInit /\ MilestonesInit
    /\ side \in {"ledger", "grants", "front", "rewards"}
    /\ side # "front" => files = {}

ShopNext ==
    /\ side' = side
    /\ \/ /\ side = "ledger" /\ Next /\ line'.grants = NoGrants
          /\ UNCHANGED <<frontVars, milestoneVars>>
       \/ /\ side = "grants" /\ Next /\ refunds' \subseteq {Amount} /\ other' = 0
          /\ UNCHANGED <<frontVars, milestoneVars>>
       \/ side = "front" /\ FrontNext /\ UNCHANGED <<vars, milestoneVars>>
       \/ side = "rewards" /\ MilestonesNext /\ UNCHANGED <<vars, frontVars>>

ShopSpec == ShopInit /\ [][ShopNext]_<<vars, frontVars, milestoneVars, side>>
=============================================================================
