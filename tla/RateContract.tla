---------------------------- MODULE RateContract ----------------------------
(***************************************************************************)
(* What a token bucket promises its callers: up to any moment, the tokens  *)
(* admitted are at most the burst capacity plus what the rate earns in the *)
(* time elapsed.                                                           *)
(***************************************************************************)
EXTENDS Integers

CONSTANTS Rate,       \* tokens per Unit of time
          Unit,       \* clock ticks per unit of time (1_000_000 in the code)
          Capacity,   \* burst
          Costs       \* sizes a call may ask for

VARIABLES now, admitted

Allowance == Capacity + (now * Rate) \div Unit

Init == now = 0 /\ admitted = 0

Tick == now' > now /\ UNCHANGED admitted

Admit == /\ \E n \in Costs : admitted' = admitted + n
         /\ admitted' <= Allowance
         /\ UNCHANGED now

Next == Tick \/ Admit

Spec == Init /\ [][Next]_<<now, admitted>>
=============================================================================
