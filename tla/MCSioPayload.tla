---------------------------- MODULE MCSioPayload ----------------------------
(* Instances of SioPayload for TLC: short messages of every shape, and two *)
(* at the limit of the attachment counter.                                 *)
EXTENDS SioPayload

J == Json("j")
A == [kind |-> "bin", val |-> "a"]
B == [kind |-> "bin", val |-> "b"]

Payloads == {One(J), One(A), Multi(<<>>), Multi(<<B>>), Multi(<<J, J>>), Multi(<<A, B>>),
             Multi(<<J, B>>), Multi(<<J, A, B>>), Multi(<<A, J, B>>)}

Emit(p)        == [payload |-> p, name |-> "foo", id |-> None, ack |-> FALSE, nsp |-> Nsp]
EmitWithAck(p) == [payload |-> p, name |-> "Message", id |-> 7, ack |-> FALSE, nsp |-> Nsp]
Ack(p)         == [payload |-> p, name |-> None, id |-> 7, ack |-> TRUE, nsp |-> Nsp]
Elsewhere(p)   == [Emit(p) EXCEPT !.nsp = Root]

Big(n) == Multi([k \in 1..n |-> IF k = n - 1 THEN A ELSE B])

MCMessage == {Emit(p) : p \in Payloads}
             \cup {Ack(p) : p \in {One(J), One(A), Multi(<<>>), Multi(<<J, J>>), Multi(<<J, B>>)}}
             \cup {EmitWithAck(One(J)), EmitWithAck(Multi(<<J, A>>)), Elsewhere(Multi(<<A, J>>))}
             \cup {Emit(Big(U8 - 1)), Emit(Big(U8))}
=============================================================================
