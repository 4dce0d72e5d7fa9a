------------------------------ MODULE Keywords ------------------------------
(***************************************************************************)
(* Keyword alerts of the log (logs.service.ts): chunks of a server's log   *)
(* arrive one after the other and the end of what was seen is kept, so     *)
(* that a keyword cut in two by a chunk is found, and found once.  The     *)
(* rules are read after the text was scanned into the tail, and changed by *)
(* operators meanwhile.                                                    *)
(***************************************************************************)
EXTENDS Naturals, Sequences

CONSTANTS
    Letters,        \* the characters of the log
    Lower,          \* the small letter of each
    Phrases,        \* keywords an operator may enter
    Chunks,         \* chunks of the log; append leaves an empty one alone
    TailSize,       \* the 256 characters that are kept
    MaxText         \* bound on the log of one server

ASSUME KeywordsAssumption ==
    /\ Lower \in [Letters -> Letters] /\ TailSize \in Nat /\ MaxText \in Nat
    /\ Phrases \subseteq Seq(Letters) /\ Chunks \subseteq Seq(Letters)
    /\ \A k \in Phrases : k # <<>> /\ Len(k) <= TailSize

VARIABLES
    keywordRule,    \* the rule: its keyword, whether case counts, whether it is enabled
    scanTail,       \* scanTails of the server
    logText,        \* everything appended since the process started
    scan,           \* the request that scans a chunk
    noticed         \* whether the last scan made an event

keywordVars == <<keywordRule, scanTail, logText, scan, noticed>>

NoKeywordRule == [keyword |-> <<>>, caseSensitive |-> FALSE, enabled |-> FALSE]
NoScan == [pc |-> "idle", prior |-> <<>>, searchable |-> <<>>, size |-> 0, rule |-> NoKeywordRule]

KeywordsInit ==
    /\ keywordRule = NoKeywordRule
    /\ scanTail = <<>> /\ logText = <<>>
    /\ scan = NoScan /\ noticed = FALSE

LowerCase(s) == [i \in DOMAIN s |-> Lower[s[i]]]
Suffix(s, n) == IF Len(s) <= n THEN s ELSE SubSeq(s, Len(s) - n + 1, Len(s))

-----------------------------------------------------------------------------
(* The rules.                                                              *)

\* createKeywordRule; the text is trimmed and not empty.
CreateKeywordRule(keyword, caseSensitive) ==
    /\ keywordRule = NoKeywordRule
    /\ keywordRule' = [keyword |-> keyword, caseSensitive |-> caseSensitive, enabled |-> TRUE]
    /\ UNCHANGED <<scanTail, logText, scan, noticed>>

SetKeywordRuleEnabled(enabled) ==
    /\ keywordRule # NoKeywordRule
    /\ keywordRule' = [keywordRule EXCEPT !.enabled = enabled]
    /\ UNCHANGED <<scanTail, logText, scan, noticed>>

DeleteKeywordRule ==
    /\ keywordRule # NoKeywordRule
    /\ keywordRule' = NoKeywordRule
    /\ UNCHANGED <<scanTail, logText, scan, noticed>>

-----------------------------------------------------------------------------
(* matchKeywordAlerts.                                                     *)

\* The tail and the chunk are one text; its end is the new tail.
ScanChunk(content) ==
    /\ scan.pc = "idle" /\ Len(logText) + Len(content) <= MaxText
    /\ LET searchable == scanTail \o content IN
        /\ scan' = [NoScan EXCEPT !.pc = "rules", !.prior = scanTail, !.searchable = searchable,
                                  !.size = Len(content)]
        /\ scanTail' = Suffix(searchable, TailSize)
    /\ logText' = logText \o content
    /\ noticed' = FALSE
    /\ UNCHANGED keywordRule

ReadKeywordRules ==
    /\ scan.pc = "rules"
    /\ scan' = IF keywordRule.enabled
               THEN [scan EXCEPT !.pc = "match", !.rule = keywordRule] ELSE NoScan
    /\ UNCHANGED <<keywordRule, scanTail, logText, noticed>>

\* lastIndexOf: where the last occurrence starts, counted from one; 0 is none.
LastIndexOf(text, word) ==
    LET At == {i \in 1..Len(text) :
                /\ i + Len(word) - 1 <= Len(text)
                /\ SubSeq(text, i, i + Len(word) - 1) = word}
    IN IF At = {} THEN 0 ELSE CHOOSE i \in At : \A j \in At : j <= i

\* Mutant: an occurrence that starts in the tail is taken for an old one.
Matches_StartsInTail(rule, prior, searchable) ==
    LET haystack == IF rule.caseSensitive THEN searchable ELSE LowerCase(searchable)
        needle == IF rule.caseSensitive THEN rule.keyword ELSE LowerCase(rule.keyword)
    IN LastIndexOf(haystack, needle) > Len(prior)

\* The last occurrence ends in the chunk: one that ends in the tail was seen before.
Matches(rule, prior, searchable) ==
    LET haystack == IF rule.caseSensitive THEN searchable ELSE LowerCase(searchable)
        needle == IF rule.caseSensitive THEN rule.keyword ELSE LowerCase(rule.keyword)
        index == LastIndexOf(haystack, needle)
    IN index > 0 /\ index - 1 + Len(needle) > Len(prior)

\* The event, and the alerts of the rule, whose errors are ignored.
MatchRule ==
    /\ scan.pc = "match"
    /\ noticed' = Matches(scan.rule, scan.prior, scan.searchable)
    /\ scan' = [scan EXCEPT !.pc = "over"]
    /\ UNCHANGED <<keywordRule, scanTail, logText>>

\* append ends; a call that throws ends it before the rules are looked at.
ScanEnds ==
    /\ scan.pc \in {"rules", "match", "over"}
    /\ scan' = NoScan
    /\ UNCHANGED <<keywordRule, scanTail, logText, noticed>>

\* The control plane is started again.
RestartScanner ==
    /\ scan' = NoScan /\ scanTail' = <<>> /\ logText' = <<>> /\ noticed' = FALSE
    /\ UNCHANGED keywordRule

\* The requests that change the rule.
KeywordRequest ==
    \/ \E keyword \in Phrases, caseSensitive \in BOOLEAN : CreateKeywordRule(keyword, caseSensitive)
    \/ \E enabled \in BOOLEAN : SetKeywordRuleEnabled(enabled)
    \/ DeleteKeywordRule

KeywordsNext ==
    \/ KeywordRequest
    \/ \E content \in Chunks : ScanChunk(content)
    \/ ReadKeywordRules \/ MatchRule \/ ScanEnds \/ RestartScanner

KeywordsSpec == KeywordsInit /\ [][KeywordsNext]_keywordVars

-----------------------------------------------------------------------------
\* A word of the text, whatever its case when the rule says so.
SameText(rule, s) ==
    Len(s) = Len(rule.keyword) /\ \A i \in DOMAIN s :
        IF rule.caseSensitive THEN s[i] = rule.keyword[i] ELSE Lower[s[i]] = Lower[rule.keyword[i]]

\* Every chunk that completes the keyword makes an event and no other does, however the
\* text was cut: looked at in the whole log since the process started, the keyword has an
\* occurrence that ends in the chunk exactly when the scan noticed one.
KeywordNoticed ==
    scan.pc = "over" =>
        (noticed <=> \E i \in 1..Len(logText), j \in (Len(logText) - scan.size + 1)..Len(logText) :
                        SameText(scan.rule, SubSeq(logText, i, j)))

=============================================================================
