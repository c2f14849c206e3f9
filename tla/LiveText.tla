------------------------------ MODULE LiveText ------------------------------
(***************************************************************************)
(* The text algorithms of live editing (web/static/wiki.js): a change      *)
(* replaces a stretch of a text by another one; an editor's unsent work is *)
(* the one change between the text it synced and the text it shows, and is *)
(* moved over the changes that were accepted before it.  A text is a       *)
(* sequence of characters; that no change splits a character in two, which *)
(* both sides see to, is not represented.                                  *)
(*                                                                         *)
(* Positions are counted from 0, as in the code: a change at p follows the *)
(* first p characters, all of them when there are fewer (slice).           *)
(***************************************************************************)
EXTENDS Integers, Sequences, FiniteSetsExt, SequencesExt

Change(p, n, text) == [position |-> p, delete |-> n, insert |-> text]

Before(text, n) == SubSeq(text, 1, Min({n, Len(text)}))
After(text, n) == SubSeq(text, n + 1, Len(text))

SameStart(s, t, n) == Before(s, n) = Before(t, n)
SameEnd(s, t, n) == After(s, Len(s) - n) = After(t, Len(t) - n)

(* One stretch that turns `before' into `after'; none if they are equal. *)
liveDiff(before, after) ==
    LET limit == Min({Len(before), Len(after)})
        start == Max({n \in 0..limit : SameStart(before, after, n)})
        end == Max({n \in 0..(limit - start) : SameEnd(before, after, n)})
    IN  IF before = after THEN <<>>
        ELSE <<Change(start, Len(before) - start - end,
                      SubSeq(after, start + 1, Len(after) - end))>>

liveApply(text, c) ==
    Before(text, c.position) \o c.insert \o After(text, c.position + c.delete)

(* One change after the other. *)
ApplyAll(text, changes) ==
    LET Done[n \in 0..Len(changes)] ==
            IF n = 0 THEN text ELSE liveApply(Done[n - 1], changes[n])
    IN  Done[Len(changes)]

(* What applyWikiLiveChange accepts. *)
Fits(c, text) == c.position + c.delete <= Len(text)

\* Mutation: a change that reaches past both ends is not split.
liveRebaseWhole(local, applied) ==
    LET aEnd == local.position + local.delete
        bEnd == applied.position + applied.delete
        inserted == Len(applied.insert)
    IN  CASE local.position < applied.position -> <<local>>
          [] local.position >= bEnd /\ ~(local.delete = 0 /\ local.position = applied.position) ->
                <<[local EXCEPT !.position = @ - applied.delete + inserted]>>
          [] OTHER -> <<Change(applied.position + inserted, Max({aEnd - bEnd, 0}), local.insert)>>

(***************************************************************************)
(* The changes that do what `local' did to the text before `applied', when *)
(* they are done one after the other to the text after it.                 *)
(***************************************************************************)
liveRebase(local, applied) ==
    LET aStart == local.position
        aEnd == local.position + local.delete
        bStart == applied.position
        bEnd == applied.position + applied.delete
        inserted == Len(applied.insert)
        left == Max({aEnd - bEnd, 0})
        tail == Change(bStart + inserted, left, <<>>)
        head == Change(aStart, bStart - aStart, local.insert)
        moved == Change(bStart + inserted, left, local.insert)
    IN  CASE aEnd <= bStart /\ aStart < bStart -> <<local>>
          [] local.delete = 0 /\ aStart = bStart -> <<moved>>
          [] aStart >= bEnd /\ ~(local.delete = 0 /\ aStart = bStart) ->
                <<[local EXCEPT !.position = @ - applied.delete + inserted]>>
          [] aEnd > bStart /\ aStart < bStart -> <<tail, head>>
          [] OTHER -> <<moved>>

(* One change done to the text that was synced, and own work carried over. *)
Carried(at, c) ==
    LET next == liveApply(at.base, c)
        pending == liveDiff(at.base, at.current)
    IN  [base |-> next,
         current |-> IF pending = <<>> THEN next ELSE ApplyAll(next, liveRebase(pending[1], c))]

(***************************************************************************)
(* The text an editor shows after the changes it missed, its own unsent    *)
(* work carried over.                                                      *)
(***************************************************************************)
liveMerge(synced, local, changes) ==
    LET Merged[n \in 0..Len(changes)] ==
            IF n = 0 THEN [base |-> synced, current |-> local]
            ELSE Carried(Merged[n - 1], changes[n])
    IN  Merged[Len(changes)].current
=============================================================================
