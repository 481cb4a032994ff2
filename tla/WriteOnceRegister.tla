-------------------------- MODULE WriteOnceRegister --------------------------
(***************************************************************************)
(* What a media store promises about the bytes under its keys, whatever    *)
(* the number of writers, their failures and their order: a key goes from  *)
(* absent to one value and keeps it, and a value is acknowledged to a      *)
(* client only while the key holds it.                                     *)
(***************************************************************************)
CONSTANTS Keys, Values, Absent

VARIABLES
  stored,   \* the value each key holds, or Absent
  acked     \* the <<key, value>> pairs acknowledged to a client

Init ==
  /\ stored = [k \in Keys |-> Absent]
  /\ acked = {}

Publish(k, v) ==
  /\ stored[k] = Absent
  /\ stored' = [stored EXCEPT ![k] = v]
  /\ UNCHANGED acked

Acknowledge(k, v) ==
  /\ stored[k] = v
  /\ acked' = acked \cup {<<k, v>>}
  /\ UNCHANGED stored

Next == \E k \in Keys, v \in Values : Publish(k, v) \/ Acknowledge(k, v)

Spec == Init /\ [][Next]_<<stored, acked>>
==============================================================================
