----------------------------- MODULE CorkStream -----------------------------
(***************************************************************************)
(* What the small-write cork of src/bsdsocket/cork.c promises the writers  *)
(* of one TCP socket, whatever the cork does inside: the bytes a writer    *)
(* was credited go to NetX Duo once each and in the order that writer      *)
(* wrote them, none goes after the FIN, and they are lost only with a      *)
(* reason the writer can learn of.  A byte is <<writer, position>>.        *)
(***************************************************************************)
EXTENDS Naturals, Sequences

CONSTANT Writers

VARIABLES written,  \* bytes each writer was credited
          gone,     \* of those, the ones NetX Duo has
          lost,     \* and the ones thrown away
          held,     \* the credited bytes still with the cork, oldest first
          fin,      \* the FIN went
          cut       \* a reason to throw bytes away is on record

svars == <<written, gone, lost, held, fin, cut>>

(* Positions from a + 1 of a writer.                                       *)
Bytes(w, a, n) == [i \in 1..n |-> <<w, a + i>>]

Count(s, w) == Len(SelectSeq(s, LAMBDA b : b[1] = w))

(* In s, each writer's bytes are the ones due next, in order.              *)
InOrder(s) == \A i \in 1..Len(s) :
  s[i][2] = gone[s[i][1]] + lost[s[i][1]] + Count(SubSeq(s, 1, i), s[i][1])

Init ==
  /\ written = [w \in Writers |-> 0] /\ gone = written /\ lost = written
  /\ held = <<>> /\ fin = FALSE /\ cut \in BOOLEAN

(* A writer is credited n bytes behind the held ones, k of all those go to *)
(* NetX Duo, and the rest stays held or, with a reason, is thrown away.    *)
Move(w, n, k) ==
  LET all  == held \o Bytes(w, written[w], n)
      rest == SubSeq(all, k + 1, Len(all))
  IN /\ InOrder(all) /\ (k > 0 => ~fin)
     /\ written' = [written EXCEPT ![w] = @ + n]
     /\ gone' = [v \in Writers |-> gone[v] + Count(SubSeq(all, 1, k), v)]
     /\ \/ held' = rest /\ lost' = lost
        \/ /\ cut' /\ held' = <<>>
           /\ lost' = [v \in Writers |-> lost[v] + Count(rest, v)]
     /\ fin' = fin

(* Bytes around the cork: not past this writer's own held bytes.           *)
Around(w, n) ==
  /\ ~fin /\ Count(held, w) = 0
  /\ written' = [written EXCEPT ![w] = @ + n]
  /\ gone' = [gone EXCEPT ![w] = @ + n]
  /\ UNCHANGED <<lost, held, fin>>

Fin == ~fin /\ fin' /\ UNCHANGED <<written, gone, lost, held>>

Credited(w) == 0..(written'[w] - written[w])

Next ==
  \/ \E w \in Writers : \E n \in Credited(w) :
       \/ \E k \in 0..(Len(held) + n) : Move(w, n, k)
       \/ Around(w, n)
  \/ Fin
  \/ UNCHANGED <<written, gone, lost, held, fin>>

Spec == Init /\ [][Next]_svars
=============================================================================
