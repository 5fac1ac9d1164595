------------------------------ MODULE PaidLookups ------------------------------
(***************************************************************************)
(* What credit metering promises one organisation, with no mention of      *)
(* rows, jobs, processes or failures: a lookup is a token; a token is paid *)
(* for with one credit, at most once, and only while a credit is left; a   *)
(* provider is called for a token only after it was paid, and only once.   *)
(* ContainerTracking is shown to implement this specification.             *)
(***************************************************************************)
EXTENDS Integers, FiniteSets

CONSTANTS
    Tokens,           \* the lookups that clients may ask for
    InitialCredits    \* credits_remaining when the history starts

VARIABLES
    balance,   \* CreditBalance.credits_remaining
    topups,    \* credits added by purchases so far
    paid,      \* tokens a credit was deducted for
    scraped    \* how often the provider chain was called for a token

vars == <<balance, topups, paid, scraped>>

Init ==
    /\ balance = InitialCredits
    /\ topups = 0
    /\ paid = {}
    /\ scraped = [t \in Tokens |-> 0]

\* UsageService.charge for a lookup: one atomic conditional decrement.
Pay(t) ==
    /\ t \in Tokens \ paid
    /\ balance >= 1
    /\ balance' = balance - 1
    /\ paid' = paid \cup {t}
    /\ UNCHANGED <<topups, scraped>>

\* The provider chain is called on behalf of a lookup.
Scrape(t) ==
    /\ t \in paid /\ scraped[t] = 0
    /\ scraped' = [scraped EXCEPT ![t] = 1]
    /\ UNCHANGED <<balance, topups, paid>>

\* A purchase adds one credit.
AddCredit ==
    /\ balance' = balance + 1
    /\ topups' = topups + 1
    /\ UNCHANGED <<paid, scraped>>

Next ==
    \/ \E t \in Tokens : Pay(t) \/ Scrape(t)
    \/ AddCredit

Spec == Init /\ [][Next]_vars
=============================================================================
