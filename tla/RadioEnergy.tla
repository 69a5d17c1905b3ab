----------------------------- MODULE RadioEnergy -----------------------------
(* The states of an end device's radio (EndDeviceLoraPhy) and the energy they *)
(* take: LoraRadioEnergyModel hears of every switch through its listener and  *)
(* charges the energy source, which may call back into the radio at that very *)
(* moment.  A radio with its meter is a record; the energy source is external.*)
EXTENDS Integers

CONSTANTS Current,              \* mA in each state (in TX: what is set at first)
          TxCurrentOf           \* mA for each transmission power, LoraTxCurrentModel

RadioState == {"SLEEP", "STANDBY", "TX", "RX"}
ASSUME CurrentAssumption ==
    Current \in [RadioState -> Nat] /\ \A p \in DOMAIN TxCurrentOf : TxCurrentOf[p] \in Nat

(* onDepletion: the state that the energy depletion callback switches the     *)
(* radio to, or "none".                                                       *)
NewRadio(onDepletion) ==
    [phy |-> "SLEEP",                   \* m_state of the PHY
     state |-> "SLEEP",                 \* m_currentState of the energy model
     lastUpdate |-> 0, total |-> 0, txCurrent |-> Current["TX"],
     pending |-> 0,                     \* m_nPendingChangeState
     superseded |-> FALSE,              \* m_isSupersededChangeState
     depleted |-> FALSE, onDepletion |-> onDepletion,
     asserted |-> FALSE]                \* an assertion of the PHY has failed

CurrentA(m) == IF m.state = "TX" THEN m.txCurrent ELSE Current[m.state]

------------------------------------------------------------------------------
(* ChangeState, before and after it notifies the energy source.               *)
Charge(m, now) == [m EXCEPT !.total = @ + (now - m.lastUpdate) * CurrentA(m),
                            !.lastUpdate = now,
                            !.pending = @ + 1]

(* A call that was overtaken by one from within does not set the state; the   *)
(* mutant sets it all the same.                                               *)
SettleAnyway(m, new) == [m EXCEPT !.state = new, !.superseded = m.pending > 1, !.pending = @ - 1]
Settle(m, new) == [m EXCEPT !.state = IF m.superseded THEN @ ELSE new,
                            !.superseded = m.pending > 1,
                            !.pending = @ - 1]

(* SwitchToStandby and SwitchToSleep, called by the depletion callback: the   *)
(* source is depleted by then and does not call back again.                   *)
Called(m, new, now) ==
    LET switched == [m EXCEPT !.phy = new,
                              !.asserted = @ \/ (new = "SLEEP" /\ m.phy # "STANDBY")]
    IN  Settle(Charge(switched, now), new)
HandleEnergyDepletion(m, now) ==
    LET depleted == [m EXCEPT !.depleted = TRUE]
    IN  IF m.onDepletion = "none" THEN depleted ELSE Called(depleted, m.onDepletion, now)

(* The outcomes of UpdateEnergySource: the source may turn out to be empty.   *)
UpdateEnergySource(m, now) ==
    {m} \cup IF m.depleted THEN {} ELSE {HandleEnergyDepletion(m, now)}
ChangeState(m, new, now) == {Settle(r, new) : r \in UpdateEnergySource(Charge(m, now), now)}

------------------------------------------------------------------------------
(* The switches of the PHY; the listener's NotifyTxStart sets the current.    *)
Switch(m, new, allowed, now) ==
    ChangeState([m EXCEPT !.phy = new, !.asserted = @ \/ m.phy \notin allowed], new, now)
SwitchToStandby(m, now) == Switch(m, "STANDBY", RadioState, now)
SwitchToRx(m, now) == Switch(m, "RX", {"STANDBY"}, now)
SwitchToSleep(m, now) == Switch(m, "SLEEP", {"STANDBY"}, now)
SwitchToTx(m, power, now) ==
    Switch([m EXCEPT !.txCurrent = TxCurrentOf[power]], "TX", RadioState \ {"RX"}, now)

(* GetTotalEnergyConsumption, with what the current state has taken so far.   *)
EnergyUntil(m, now) == m.total + (now - m.lastUpdate) * CurrentA(m)
=============================================================================
