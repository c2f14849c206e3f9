------------------------------ MODULE LexoRank ------------------------------
(***************************************************************************)
(* The ordering keys of the backlog (internal/lexorank): a rank is a word, *)
(* compared as strings are, and a work item is placed between two others   *)
(* by giving it a word between theirs.  A letter is its index in the       *)
(* alphabet, which has 52 letters in the code and K here; "u", the rank    *)
(* every work item is created with, is <<U>>.  The empty word stands for   *)
(* "no neighbour on this side" as an argument and for an error as a        *)
(* result: Mid never answers with it.                                      *)
(***************************************************************************)
EXTENDS Integers, Sequences

CONSTANTS K, U

ASSUME AlphabetAssumption == K \in Nat /\ U \in Nat /\ 0 < U /\ U < K

Letters == 0..(K - 1)
MaxChar == K - 1
None == <<>>

(* Go compares strings byte by byte, a prefix before what it begins. *)
Less(a, b) ==
    \E n \in 1..Len(b) :
        /\ \A m \in 1..(n - 1) : m <= Len(a) /\ a[m] = b[m]
        /\ n <= Len(a) => a[n] < b[n]

Least(positions) == CHOOSE n \in positions : \A m \in positions : n <= m

(* The leading smallest letters stay, the first larger one goes down. *)
Before(s) ==
    LET larger == {n \in 1..Len(s) : s[n] # 0}
        n == Least(larger)
    IN  IF larger = {} THEN None
        ELSE SubSeq(s, 1, n - 1) \o <<s[n] - 1, MaxChar>>

(* The last letter that can goes up and ends the word. *)
After(s) ==
    LET smaller == {n \in 1..Len(s) : s[n] # MaxChar}
        last == CHOOSE n \in smaller : \A m \in smaller : m <= n
    IN  IF smaller = {} THEN s \o <<K \div 2>>
        ELSE SubSeq(s, 1, last - 1) \o <<s[last] + 1>>

(* Mutant of Between: a gap of one letter is taken for room. *)
BetweenNeighbours(a, b) ==
    LET Low(n) == IF n <= Len(a) THEN a[n] ELSE 0
        High(n) == IF n <= Len(b) THEN b[n] ELSE b[Len(b)]
        stops == {n \in 1..(Len(a) + Len(b) + 10) : High(n) > Low(n)}
        n == Least(stops)
    IN  [m \in 1..(n - 1) |-> Low(m)] \o <<(Low(n) + High(n)) \div 2>>

(* The loop of between: where it stops, and with what.                     *)
Between(a, b) ==
    LET Low(n) == IF n <= Len(a) THEN a[n] ELSE 0
        High(n) == IF n <= Len(b) THEN b[n] ELSE b[Len(b)]
        Stuck(n) == n <= Len(b) /\ High(n) < Low(n)
        Room(n) == High(n) - Low(n) >= 2
        stops == {n \in 1..(Len(a) + Len(b) + 10) : Stuck(n) \/ Room(n)}
        n == Least(stops)
    IN  IF stops = {} \/ Stuck(n) THEN None
        ELSE [m \in 1..(n - 1) |-> Low(m)] \o <<(Low(n) + High(n)) \div 2>>

(* Mid(lo, hi): None as a bound is open, None as the result is an error. *)
Mid(lo, hi) ==
    CASE lo = None /\ hi = None -> <<U>>
      [] lo = None /\ hi # None -> Before(hi)
      [] lo # None /\ hi = None -> After(lo)
      [] lo # None /\ hi # None -> IF Less(lo, hi) THEN Between(lo, hi) ELSE None
=============================================================================
