------------------------------ MODULE MCSession ------------------------------
(* Instances of Session for TLC. *)
EXTENDS Session, TLC

CONSTANTS q1, q2

TwoReaders == {q1, q2}
OneReader == {q1}

Reader(kind1, reads1, closes1) == [kind |-> kind1, reads |-> reads1, closes |-> closes1]

Unused == Reader("gameEvent", {}, "unused")

(* Two subscribers, one of them of a client that reads only the ingress    *)
(* channel, as in doc.go:71; or one of any other kind.                     *)
Pairs == {
  (q1 :> Reader("gameEvent", {"ingress", "egress"}, "late"))
    @@ (q2 :> Reader("gameEvent", {"ingress"}, "never")),
  (q1 :> Reader("keepalive", {"events"}, "early")) @@ (q2 :> Unused),
  (q1 :> Reader("eventHandler", {}, "late")) @@ (q2 :> Unused),
  (q1 :> Reader("keepaliveHandler", {}, "late")) @@ (q2 :> Unused)}

Full == {q1 :> Reader("gameEvent", {"ingress", "egress"}, "late")}
OnlyIngress == {q1 :> Reader("gameEvent", {"ingress"}, "late")}
=============================================================================
