-------------------------- MODULE MCCourierStatus --------------------------
(* Small instances of CourierStatus for TLC.                               *)
EXTENDS CourierStatus

CONSTANTS w1, w2, p1, p2

(* Two webhook calls, a webhook call beside a page sync, and page syncs    *)
(* and refreshes alone, with every courier that has them.                  *)
With(c, active) == [courier |-> c, active |-> active]
EveryCourier ==
    {With("SENDIT", {w1, w2})}
    \cup {With(c, {w1, p1}) : c \in {"SENDIT", "QUICKLIVRAISON", "AMEEX"}}
    \cup {With(c, {p1, p2}) : c \in {"FORCELOG", "OZONEEXPRESS"}}

(* Out for delivery, perhaps not answered, delivered or refused; a refusal *)
(* may be corrected, and a refused parcel is tried again or comes back.    *)
Usual == {<<"PENDING", "IN_TRANSIT">>, <<"IN_TRANSIT", "UNREACHABLE">>,
          <<"IN_TRANSIT", "DELIVERED">>, <<"IN_TRANSIT", "REFUSED">>,
          <<"UNREACHABLE", "DELIVERED">>, <<"UNREACHABLE", "CANCELLED">>,
          <<"REFUSED", "DELIVERED">>, <<"REFUSED", "UNREACHABLE">>,
          <<"REFUSED", "RETURN_IN_TRANSIT">>,
          <<"RETURN_IN_TRANSIT", "RETURNED_TO_SELLER">>}
=============================================================================
