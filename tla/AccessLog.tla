----------------------------- MODULE AccessLog -----------------------------
(***************************************************************************)
(* What a file of granted keys amounts to when one script at a time writes *)
(* it and nobody else does: a log of grants, oldest first.  A grant is     *)
(* recorded once, at the end.  Revoking a request cuts the log off before  *)
(* its first entry, taking every later grant along.                        *)
(***************************************************************************)
EXTENDS Naturals, Sequences

CONSTANTS Id, Text

VARIABLE log

Entries == [id : Id, text : Text]

Init == log = <<>>

Recorded(e) == \E i \in 1 .. Len(log) : log[i] = e

Grant(e) == ~Recorded(e) /\ log' = Append(log, e)

Revoke(id) ==
  \E n \in 1 .. Len(log) :
    /\ log[n].id = id
    /\ \A m \in 1 .. n - 1 : log[m].id # id
    /\ log' = SubSeq(log, 1, n - 1)

Next == (\E e \in Entries : Grant(e)) \/ (\E id \in Id : Revoke(id))

Spec == Init /\ [][Next]_log
=============================================================================
