--------------------------- MODULE GoodixPanelProofs --------------------------
(***************************************************************************)
(* Proofs about installing and removing the touch driver, for any versions *)
(* of the panel's and of the driver's configuration and whatever fails on  *)
(* the way in.                                                             *)
(***************************************************************************)
EXTENDS GoodixPanel, TLAPS

\* The driver's group with its version forced to 0, as it is sent over a newer one.
Forced == [data |-> "group", version |-> 0, sum |-> 0]

\* What the buffer holds at each point of the probe and after it.
Buffer ==
  /\ pc \in {"absent", "ports", "i2c", "firmware", "sensor", "failed"} => config = Zero
  /\ pc = "version" => config = Group
  /\ pc = "send" => config = IF Overrides(flash) THEN Forced ELSE Group
  /\ pc \in {"input", "irq", "running", "removed"} => config \in {Zero, Group}

\* gtp_send_cfg looks at pnl_init_error: a driver that has the flag has sent nothing.
FlagStopsSending == pnl_init_error => sent = Nothing

\* When the flag is raised nothing has been sent yet.
NotSentYet ==
  pc \in {"absent", "ports", "i2c", "firmware", "sensor", "version", "send", "failed"}
    => sent = Nothing

\* The two sources of events, with what belongs to each.
Source == IF use_irq THEN {"int", "irq"} ELSE {"timer"}

\* What the driver has at each point.
Ownership ==
  /\ pc \in {"absent", "removed"} => held = {}
  /\ pc \in {"ports", "failed"} => held = {"wq"}
  /\ pc \in {"ports", "i2c", "firmware", "sensor", "version", "send", "input", "irq"}
       => ~use_irq
  /\ pc \in {"i2c", "firmware", "sensor", "version", "send", "input"}
       => held \in {{"wq", "rst"}, {"wq", "int", "rst"}}
  /\ pc = "irq" => held \ {"input"} \in {{"wq", "rst"}, {"wq", "int", "rst"}}
  /\ pc = "running" => held \ {"input"} = {"wq", "rst"} \cup Source

PanelInv ==
  /\ TypeOK
  /\ Buffer /\ ConfigConsistent
  /\ FlagStopsSending /\ NotSentYet
  /\ Ownership

-------------------------------------------------------------------------------
(* The checksum. *)

\* What gtp_init_panel sends for a version read from the panel ...
LEMMA ForcedOrOwn ==
  ASSUME NEW v, config = Group
  PROVE  Checksummed(IF Overrides(v) THEN [config EXCEPT !.version = 0] ELSE config)
           = IF Overrides(v) THEN Forced ELSE Group
<1>1. CASE Overrides(v)
  <2>1. [Group EXCEPT !.version = 0] = [data |-> "group", version |-> 0, sum |-> DrvVersion]
    BY DEF Group
  <2>2. Checksummed([data |-> "group", version |-> 0, sum |-> DrvVersion]) = Forced
    BY DEF Checksummed, Forced
  <2>3. (IF Overrides(v) THEN [config EXCEPT !.version = 0] ELSE config)
          = [data |-> "group", version |-> 0, sum |-> DrvVersion]
    BY <1>1, <2>1
  <2> QED
    BY <1>1, <2>2, <2>3
<1>2. CASE ~Overrides(v)
  BY <1>2 DEF Checksummed, Group
<1> QED
  BY <1>1, <1>2

\* ... and what it leaves in the buffer after that.
LEMMA RestoredIsOwn ==
  ASSUME config = IF Overrides(flash) THEN Forced ELSE Group
  PROVE  Restored = Group
<1>1. CASE Overrides(flash)
  BY <1>1 DEF Restored, Checksummed, Group, Forced
<1>2. CASE ~Overrides(flash)
  BY <1>2 DEF Restored
<1> QED
  BY <1>1, <1>2

\* The configurations there are, and that each carries its checksum.
LEMMA Configs ==
  /\ Zero \in Config /\ Group \in Config /\ Forced \in Config
  /\ Zero.sum = Zero.version /\ Group.sum = Group.version /\ Forced.sum = Forced.version
  /\ Nothing.sum = Nothing.version
BY DEF Zero, Group, Forced, Nothing, Config

-------------------------------------------------------------------------------
\* The initial state is in the invariant.
LEMMA PanelInit == Init => PanelInv
<1> SUFFICES ASSUME Init PROVE PanelInv
  OBVIOUS
<1>1. TypeOK
  BY Configs DEF Init, TypeOK, Pc
<1>2. Buffer /\ ConfigConsistent /\ FlagStopsSending /\ NotSentYet
  BY Configs DEF Init, Buffer, ConfigConsistent, FlagStopsSending, NotSentYet
<1>3. Ownership
  BY DEF Init, Ownership
<1> QED
  BY <1>1, <1>2, <1>3 DEF PanelInv

-------------------------------------------------------------------------------
(* The configuration. *)

\* gtp_send_cfg sends the buffer or nothing, and nothing under the flag.
LEMMA SendKeeps ==
  ASSUME SendCfg \/ UNCHANGED sent, UNCHANGED pnl_init_error,
         config.sum = config.version, config \in Config,
         ConfigConsistent, FlagStopsSending, sent \in Config \cup {Nothing}
  PROVE  ConfigConsistent' /\ FlagStopsSending' /\ sent' \in Config \cup {Nothing}
BY DEF SendCfg, ConfigConsistent, FlagStopsSending

\* Where the buffer is sent it carries its checksum.
LEMMA BufferConsistent ==
  ASSUME Buffer, pc \in {"send", "running"}
  PROVE  config.sum = config.version /\ config \in Config
BY Configs DEF Buffer

\* Every step keeps the buffer and what has been sent in order.
LEMMA ConfigStep ==
  ASSUME PanelInv, Next
  PROVE  Buffer' /\ ConfigConsistent' /\ FlagStopsSending' /\ NotSentYet'
<1> USE DEF PanelInv
<1> DEFINE C == Buffer' /\ ConfigConsistent' /\ FlagStopsSending' /\ NotSentYet'
<1>1. CASE Install
  BY <1>1, Configs DEF Install, Buffer, ConfigConsistent, FlagStopsSending, NotSentYet
<1>2. CASE ProbeFails \/ RequestPorts \/ RequestRstFails \/ TestI2c \/ FirmwareGood
  <2>1. UNCHANGED <<config, sent, pnl_init_error>> /\ config = Zero /\ sent = Nothing
    BY <1>2 DEF ProbeFails, RequestPorts, RequestRstFails, TestI2c, FirmwareGood, Go, panelVars,
       Buffer, NotSentYet
  <2>2. pc' \in {"failed", "i2c", "firmware", "sensor"}
    BY <1>2 DEF ProbeFails, RequestPorts, RequestRstFails, TestI2c, FirmwareGood, Go
  <2> QED
    BY <2>1, <2>2, Configs DEF Buffer, ConfigConsistent, FlagStopsSending, NotSentYet
<1>3. CASE FirmwareBad
  BY <1>3 DEF FirmwareBad, GiveUp, Go, Buffer, ConfigConsistent, FlagStopsSending, NotSentYet
<1>4. CASE SensorBad
  BY <1>4 DEF SensorBad, GiveUp, Go, Buffer, ConfigConsistent, FlagStopsSending, NotSentYet
<1>5. CASE SensorGood
  BY <1>5 DEF SensorGood, Go, Buffer, ConfigConsistent, FlagStopsSending, NotSentYet
<1>6. CASE VersionUnread
  BY <1>6 DEF VersionUnread, GiveUp, Go, Buffer, ConfigConsistent, FlagStopsSending, NotSentYet
<1>7. ASSUME NEW v \in Versions, ReadVersion(v) PROVE C
  <2>1. config' = IF Overrides(v) THEN Forced ELSE Group
    BY <1>7, ForcedOrOwn DEF ReadVersion, Go, Buffer
  <2>2. flash' = v /\ pc' = "send" /\ UNCHANGED <<sent, pnl_init_error>> /\ sent = Nothing
    BY <1>7 DEF ReadVersion, Go, NotSentYet
  <2>3. Overrides(flash)' <=> Overrides(v)
    BY <2>2 DEF Overrides
  <2>4. config' = IF Overrides(flash)' THEN Forced' ELSE Group'
    BY <2>1, <2>3 DEF Forced, Group
  <2> QED
    BY <2>2, <2>4 DEF Buffer, ConfigConsistent, FlagStopsSending, NotSentYet
<1>8. CASE SendAtProbe
  <2>1. ConfigConsistent' /\ FlagStopsSending'
    BY <1>8, SendKeeps, BufferConsistent DEF SendAtProbe, Go, TypeOK
  <2>2. pc' = "input" /\ config' = Group
    BY <1>8, RestoredIsOwn DEF SendAtProbe, Go, Buffer
  <2> QED
    BY <2>1, <2>2 DEF Buffer, NotSentYet, Group
<1>9. CASE RequestInput \/ RequestInputFails \/ RequestIrq \/ RequestIrqFails \/ Remove
  <2>1. UNCHANGED <<config, sent, pnl_init_error>> /\ config \in {Zero, Group}
    BY <1>9 DEF RequestInput, RequestInputFails, RequestIrq, RequestIrqFails, Remove, Go,
       panelVars, Buffer
  <2>2. pc' \in {"irq", "running", "removed"}
    BY <1>9 DEF RequestInput, RequestInputFails, RequestIrq, RequestIrqFails, Remove, Go
  <2> QED
    BY <2>1, <2>2 DEF Buffer, ConfigConsistent, FlagStopsSending, NotSentYet, Zero, Group
<1>10. CASE ResumeSendsCfg
  <2>1. ConfigConsistent' /\ FlagStopsSending'
    BY <1>10, SendKeeps, BufferConsistent DEF ResumeSendsCfg, TypeOK
  <2>2. UNCHANGED <<pc, config, flash>> /\ pc = "running"
    BY <1>10 DEF ResumeSendsCfg
  <2> QED
    BY <2>1, <2>2 DEF Buffer, NotSentYet, Zero, Group
<1> QED
  BY <1>1, <1>2, <1>3, <1>4, <1>5, <1>6, <1>7, <1>8, <1>9, <1>10 DEF Next

-------------------------------------------------------------------------------
(* What the driver holds. *)

\* Every step takes and gives back what it should.
LEMMA OwnershipStep == ASSUME Ownership, Next PROVE Ownership'
<1> USE DEF Ownership, Source
<1>1. CASE Install
  BY <1>1 DEF Install
<1>2. CASE ProbeFails \/ RequestRstFails
  BY <1>2 DEF ProbeFails, RequestRstFails, Go
<1>3. CASE RequestPorts
  <2>1. ~use_irq'
    BY <1>3 DEF RequestPorts, Go
  <2>2. pc' = "i2c" /\ held' \in {{"wq", "rst"}, {"wq", "int", "rst"}}
    BY <1>3 DEF RequestPorts, Go
  <2> QED
    BY <2>1, <2>2
<1>4. CASE \/ TestI2c \/ FirmwareGood \/ FirmwareBad \/ SensorGood \/ SensorBad
           \/ VersionUnread \/ (\E v \in Versions : ReadVersion(v)) \/ SendAtProbe
  <2>1. /\ UNCHANGED <<held, use_irq>>
        /\ pc \in {"i2c", "firmware", "sensor", "version", "send"}
        /\ pc' \in {"firmware", "sensor", "version", "send", "input"}
    BY <1>4 DEF TestI2c, FirmwareGood, FirmwareBad, SensorGood, SensorBad, VersionUnread,
       ReadVersion, SendAtProbe, GiveUp, Go
  <2> QED
    BY <2>1
<1>5. CASE RequestInput \/ RequestInputFails
  BY <1>5 DEF RequestInput, RequestInputFails, Go
<1>6. CASE RequestIrq
  BY <1>6 DEF RequestIrq, Go
<1>7. CASE RequestIrqFails
  BY <1>7 DEF RequestIrqFails, Go
<1>8. CASE ResumeSendsCfg
  BY <1>8 DEF ResumeSendsCfg
<1>9. CASE Remove
  BY <1>9 DEF Remove, RemoveSource, Go
<1> QED
  BY <1>1, <1>2, <1>3, <1>4, <1>5, <1>6, <1>7, <1>8, <1>9 DEF Next

-------------------------------------------------------------------------------
\* Every step keeps the types.
LEMMA TypeStep == ASSUME PanelInv, Next PROVE TypeOK'
<1> USE DEF PanelInv, TypeOK
<1>1. CASE Install
  BY <1>1, Configs DEF Install, Pc, Parts
<1>2. CASE ProbeFails \/ RequestPorts \/ RequestRstFails \/ TestI2c \/ FirmwareGood
  BY <1>2 DEF ProbeFails, RequestPorts, RequestRstFails, TestI2c, FirmwareGood, Go, Pc, Parts,
     panelVars
<1>3. CASE FirmwareBad \/ SensorBad \/ SensorGood \/ VersionUnread
  BY <1>3, Configs DEF FirmwareBad, SensorBad, SensorGood, VersionUnread, GiveUp, Go, Pc
<1>4. ASSUME NEW v \in Versions, ReadVersion(v) PROVE TypeOK'
  <2>1. config' \in Config
    BY <1>4, ForcedOrOwn, Configs DEF ReadVersion, Go, Buffer
  <2> QED
    BY <1>4, <2>1 DEF ReadVersion, Go, Pc
<1>5. CASE SendAtProbe
  <2>1. sent' \in Config \cup {Nothing}
    BY <1>5, SendKeeps, BufferConsistent DEF SendAtProbe, Go
  <2>2. config' \in Config
    BY <1>5, RestoredIsOwn, Configs DEF SendAtProbe, Go, Buffer
  <2> QED
    BY <1>5, <2>1, <2>2 DEF SendAtProbe, Go, Pc
<1>6. CASE RequestInput \/ RequestInputFails \/ RequestIrqFails \/ Remove
  BY <1>6 DEF RequestInput, RequestInputFails, RequestIrqFails, Remove, RemoveSource, Go, Pc,
     Parts, panelVars
<1>7. CASE RequestIrq
  BY <1>7 DEF RequestIrq, Go, Pc, Parts, panelVars
<1>8. CASE ResumeSendsCfg
  <2>1. sent' \in Config \cup {Nothing}
    BY <1>8, SendKeeps, BufferConsistent DEF ResumeSendsCfg
  <2> QED
    BY <1>8, <2>1 DEF ResumeSendsCfg
<1> QED
  BY <1>1, <1>2, <1>3, <1>4, <1>5, <1>6, <1>7, <1>8 DEF Next

\* The invariant is inductive.
LEMMA PanelNext == PanelInv /\ [Next]_vars => PanelInv'
<1>1. ASSUME PanelInv, UNCHANGED vars PROVE PanelInv'
  BY <1>1 DEF vars, panelVars, PanelInv, TypeOK, Buffer, Overrides, ConfigConsistent,
     FlagStopsSending, NotSentYet, Ownership, Source
<1>2. ASSUME PanelInv, Next PROVE PanelInv'
  BY <1>2, TypeStep, ConfigStep, OwnershipStep DEF PanelInv
<1> QED
  BY <1>1, <1>2

\* Every reachable state is in the invariant.
LEMMA PanelInvariant == Spec => []PanelInv
BY PanelInit, PanelNext, PTL DEF Spec

-------------------------------------------------------------------------------
\* The state of the installation is well typed: the buffer always is the zeroed one or
\* the driver's group with its own version or with 0.
THEOREM TypeCorrect == Spec => []TypeOK
<1>1. PanelInv => TypeOK
  BY DEF PanelInv
<1> QED
  BY <1>1, PanelInvariant, PTL

\* Every configuration that leaves the driver carries its checksum, at the probe and at
\* every resume after it.
THEOREM SentIsConsistent == Spec => []ConfigConsistent
<1>1. PanelInv => ConfigConsistent
  BY DEF PanelInv
<1> QED
  BY <1>1, PanelInvariant, PTL

\* The version forced to 0 for one transfer is never sent by a resume.
THEOREM OwnVersionAtResume == Spec => []ResumeSendsOwnVersion
<1>1. PanelInv => ResumeSendsOwnVersion
  BY DEF PanelInv, Buffer, ResumeSendsOwnVersion, Zero, Group
<1> QED
  BY <1>1, PanelInvariant, PTL

\* The installed driver has one source of events, with the port it needs.
THEOREM OneSource == Spec => []ModeOwnsItsSource
<1>1. PanelInv => ModeOwnsItsSource
  BY DEF PanelInv, Ownership, Source, ModeOwnsItsSource
<1> QED
  BY <1>1, PanelInvariant, PTL

\* A removal gives everything back, a failed probe keeps no port.
THEOREM CleanExit == Spec => []NothingLeftBehind
<1>1. PanelInv => NothingLeftBehind
  BY DEF PanelInv, Ownership, NothingLeftBehind
<1> QED
  BY <1>1, PanelInvariant, PTL

\* A panel whose sensor was not recognised is never sent a configuration, not even by
\* the resumes (the flag of gtp_send_cfg, l.198).
THEOREM UnknownPanelLeftAlone == Spec => []FlagStopsSending
<1>1. PanelInv => FlagStopsSending
  BY DEF PanelInv
<1> QED
  BY <1>1, PanelInvariant, PTL
===============================================================================
