---------------------- MODULE CoherenceProtocols_proofs ----------------------
(* The protocol tables, whichever protocol is configured.                      *)
EXTENDS CoherenceProtocols, TLAPS

(* The tables never leave the states of the configured protocol.               *)
LEMMA TablesTyped ==
  ASSUME NEW s \in ProtocolStates
  PROVE  /\ \A op \in Ops : RequestState(op, s) \in ProtocolStates \/ Decision(op, s) \notin Commands \cup {"hit"}
         /\ \A cmd : SnoopState(cmd, s) \in ProtocolStates
         /\ \A op, shared : FillState(op, shared, s) \in ProtocolStates
         /\ "invalid" \in ProtocolStates
<1>1. \A op \in Ops : RequestState(op, s) \in ProtocolStates \/ Decision(op, s) \notin Commands \cup {"hit"}
  BY ProtocolAssumption DEF ProtocolStates, Ops, Commands, RequestState, Decision, WriteHitStates, ReadHitStates
<1>2. \A cmd : SnoopState(cmd, s) \in ProtocolStates
  BY ProtocolAssumption DEF ProtocolStates, SnoopState, BusRdState, BusRdXState
<1>3. \A op, shared : FillState(op, shared, s) \in ProtocolStates
  BY ProtocolAssumption DEF ProtocolStates, FillState, ReadFill, WriteFill
<1>4. "invalid" \in ProtocolStates
  BY ProtocolAssumption DEF ProtocolStates
<1> QED BY <1>1, <1>2, <1>3, <1>4
===============================================================================
