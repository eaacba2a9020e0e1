---- MODULE MCTunnel ----
(***************************************************************************)
(* The instance of Tunnel for TLC: one connection, one failure of the      *)
(* websocket or of a serve loop, and what follows from it.                 *)
(***************************************************************************)
EXTENDS Tunnel

CONSTANT MaxTotal   \* bound on the chunks of both directions together

MCMaxChunks == [x \in Sides |-> IF x = "server" THEN 2 ELSE 1]

Whole(s) == link[s] = "up" /\ \A x \in Sides : serving[s][x] = "on"

OneFailure ==
  \A s \in Sessions :
    /\ LinkBreaks(s) => Whole(s)
    /\ \A x \in Sides : ServeFails(s, x) => Whole(s) \/ MustFail(s, x)

FewChunks == \A c \in Conns : wrote'["server"][c] + wrote'["client"][c] <= MaxTotal

MCSpec == Init /\ [][Next /\ OneFailure /\ FewChunks]_vars /\ Fairness
====
