------------------------------- MODULE Lists --------------------------------
(***************************************************************************)
(* The list comprehensions of the services: the elements of a list that    *)
(* pass a test, in their order.  The test is a set, and the recursion a    *)
(* function, so that ListFacts can prove what is needed of them.           *)
(***************************************************************************)
EXTENDS Integers, Sequences

Items(s) == {s[i] : i \in DOMAIN s}

\* [x for x in t if x in K]
Keep(t, K) ==
    LET kept[n \in 0..Len(t)] ==
            IF n = 0 THEN <<>>
            ELSE IF t[n] \in K THEN Append(kept[n - 1], t[n]) ELSE kept[n - 1]
    IN  kept[Len(t)]

\* sum(f[x] for x in t)
Total(t, f) ==
    LET sum[n \in 0..Len(t)] == IF n = 0 THEN 0 ELSE sum[n - 1] + f[t[n]]
    IN  sum[Len(t)]
=============================================================================
