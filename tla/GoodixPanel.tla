----------------------------- MODULE GoodixPanel ------------------------------
(***************************************************************************)
(* Installing and removing the touch driver (goodix_ts_init, _probe and    *)
(* _remove of drivers/goodix_ts/gt9xx.c): the ports, the panel's           *)
(* configuration, the input device and the interrupt or the timer, each of *)
(* which may fail, and the configuration a resume sends again.             *)
(*                                                                         *)
(* A configuration is a version, data and a checksum; a checksum stands    *)
(* for the version it was computed over.  The groups of gt9xx.h for the    *)
(* sensor ids 0, 2 and 4 are complete and carry their checksum; those for  *)
(* 1, 3 and 5 are empty.                                                   *)
(***************************************************************************)
EXTENDS Integers

CONSTANTS
  Versions,      \* what the configuration version in the panel may be
  DrvVersion,    \* the version of the driver's group
  Locked         \* versions from here on (90) are not overridden

ASSUME VersionAssumption ==
  /\ Versions \subseteq Nat /\ Locked \in Nat
  /\ DrvVersion \in Nat \ {0} /\ DrvVersion < Locked

Config == [data : {"zero", "group"}, version : {0, DrvVersion}, sum : {0, DrvVersion}]
Zero == [data |-> "zero", version |-> 0, sum |-> 0]
Group == [data |-> "group", version |-> DrvVersion, sum |-> DrvVersion]
Nothing == [data |-> "nothing", version |-> 0, sum |-> 0]

VARIABLES
  pc,              \* where the probe is
  held,            \* what the driver has: wq, int, rst, irq, timer, input
  use_irq,
  fw_error, pnl_init_error,
  config,          \* the global buffer
  flash,           \* the configuration version read from the panel
  sent,            \* the last configuration sent, or Nothing (history)
  refused,         \* the driver has logged that it sends none (history)
  range            \* where abs_x_max, abs_y_max and the trigger come from

panelVars == <<fw_error, pnl_init_error, config, flash, sent, refused, range>>
vars == <<pc, held, use_irq, panelVars>>

Pc == {"absent", "ports", "i2c", "firmware", "sensor", "version", "send", "input", "irq",
       "running", "failed", "removed"}
Parts == {"wq", "int", "rst", "irq", "timer", "input"}

TypeOK ==
  /\ pc \in Pc /\ held \subseteq Parts /\ use_irq \in BOOLEAN
  /\ fw_error \in BOOLEAN /\ pnl_init_error \in BOOLEAN
  /\ config \in Config /\ flash \in Versions \cup {0} /\ sent \in Config \cup {Nothing}
  /\ refused \in BOOLEAN /\ range \in {"none", "config", "default"}

Init ==
  /\ pc = "absent" /\ held = {} /\ use_irq = FALSE
  /\ fw_error = FALSE /\ pnl_init_error = FALSE
  /\ config = Zero /\ flash = 0 /\ sent = Nothing /\ refused = FALSE /\ range = "none"

Go(from, to) == pc = from /\ pc' = to

-------------------------------------------------------------------------------
(* The ports. *)

\* goodix_ts_init, up to the ports; the module's memory is as at the first time.
Install ==
  /\ pc \in {"absent", "failed", "removed"} /\ pc' = "ports"
  /\ held' = {"wq"} /\ use_irq' = FALSE
  /\ fw_error' = FALSE /\ pnl_init_error' = FALSE
  /\ config' = Zero /\ flash' = 0 /\ sent' = Nothing /\ refused' = FALSE /\ range' = "none"

\* No memory, or an adapter without plain I2C.
ProbeFails ==
  /\ Go("ports", "failed")
  /\ UNCHANGED <<held, use_irq, panelVars>>

\* gtp_request_io_port.  A refused INT port is logged, and the result is then that
\* of the RST port.
RequestPorts ==
  /\ Go("ports", "i2c")
  /\ \E got \in {{"int", "rst"}, {"rst"}} : held' = held \cup got
  /\ UNCHANGED <<use_irq, panelVars>>

\* Both are freed; what was got of INT is given back.
RequestRstFails ==
  /\ Go("ports", "failed")
  /\ held' = held \ {"int", "rst"}
  /\ UNCHANGED <<use_irq, panelVars>>

\* gtp_i2c_test and gtp_read_version: their failure is only logged.
TestI2c ==
  /\ Go("i2c", "firmware")
  /\ UNCHANGED <<held, use_irq, panelVars>>

-------------------------------------------------------------------------------
(* gtp_init_panel.  Every value is read by gtp_i2c_read_dbl_check, which   *)
(* fails unless two reads in a row agree.  When it gives up, the probe     *)
(* takes the default range and goes on.                                    *)

GiveUp(from) ==
  /\ Go(from, "input")
  /\ range' = "default"
  /\ refused' = TRUE

\* The byte at 0x41E4 is 0xBE, or cannot be read.
FirmwareGood ==
  /\ Go("firmware", "sensor")
  /\ UNCHANGED <<held, use_irq, panelVars>>

FirmwareBad ==
  /\ GiveUp("firmware")
  /\ fw_error' = TRUE
  /\ UNCHANGED <<held, use_irq, pnl_init_error, config, flash, sent>>

\* The id cannot be read or is 6 or more, or its group is shorter than
\* GTP_CONFIG_MIN_LENGTH: the buffer is as zero as before.
SensorBad ==
  /\ GiveUp("sensor")
  /\ pnl_init_error' = TRUE
  /\ config' = Zero
  /\ UNCHANGED <<held, use_irq, fw_error, flash, sent>>

SensorGood ==
  /\ Go("sensor", "version")
  /\ config' = Group
  /\ UNCHANGED <<held, use_irq, fw_error, pnl_init_error, flash, sent, refused, range>>

VersionUnread ==
  /\ GiveUp("version")
  /\ UNCHANGED <<held, use_irq, fw_error, pnl_init_error, config, flash, sent>>

Checksummed(c) == [c EXCEPT !.sum = c.version]
Overrides(v) == v < Locked /\ v > DrvVersion

\* A newer configuration in the panel is overridden by version 0.
ReadVersion(v) ==
  /\ Go("version", "send")
  /\ flash' = v
  /\ config' = Checksummed(IF Overrides(v) THEN [config EXCEPT !.version = 0] ELSE config)
  /\ range' = "config"
  /\ UNCHANGED <<held, use_irq, fw_error, pnl_init_error, sent, refused>>

\* gtp_send_cfg, when one of its five writes gets through.
SendCfg == sent' = IF pnl_init_error THEN sent ELSE config

\* Mutant: the version is restored, its checksum is not.
RestoredVersionOnly ==
  IF Overrides(flash) THEN [config EXCEPT !.version = DrvVersion] ELSE config

\* Mutant: the panel's version is put back instead of the driver's.
RestoredPanels ==
  IF Overrides(flash) THEN Checksummed([config EXCEPT !.version = flash]) ELSE config

\* The driver's own version, for the configuration a resume sends.
Restored ==
  IF Overrides(flash) THEN Checksummed([config EXCEPT !.version = DrvVersion]) ELSE config

SendAtProbe ==
  /\ Go("send", "input")
  /\ SendCfg \/ UNCHANGED sent
  /\ config' = Restored
  /\ UNCHANGED <<held, use_irq, fw_error, pnl_init_error, flash, refused, range>>

-------------------------------------------------------------------------------
(* The input device and the interrupt. *)

RequestInput ==
  /\ Go("input", "irq")
  /\ held' = held \cup {"input"}
  /\ UNCHANGED <<use_irq, panelVars>>

\* Only logged.
RequestInputFails ==
  /\ Go("input", "irq")
  /\ UNCHANGED <<held, use_irq, panelVars>>

\* Without the INT port client->irq is 0, which is no interrupt of this board.
RequestIrq ==
  /\ Go("irq", "running")
  /\ "int" \in held
  /\ held' = held \cup {"irq"}
  /\ use_irq' = TRUE
  /\ UNCHANGED panelVars

\* Mutant: the INT port stays requested in polling mode.
RequestIrqFailsKeeping ==
  /\ Go("irq", "running")
  /\ held' = held \cup {"timer"}
  /\ UNCHANGED <<use_irq, panelVars>>

RequestIrqFails ==
  /\ Go("irq", "running")
  /\ held' = (held \ {"int"}) \cup {"timer"}
  /\ UNCHANGED <<use_irq, panelVars>>

-------------------------------------------------------------------------------
(* The installed driver. *)

\* goodix_ts_resume sends the configuration again.
ResumeSendsCfg ==
  /\ pc = "running"
  /\ SendCfg \/ UNCHANGED sent
  /\ UNCHANGED <<pc, held, use_irq, fw_error, pnl_init_error, config, flash, refused, range>>

\* Mutant: the timer is left running.
RemoveSourceIrqOnly == held \ {"int", "irq"}

RemoveSource == held \ (IF use_irq THEN {"int", "irq"} ELSE {"timer"})

\* goodix_ts_remove and goodix_ts_exit; without an input device the code would
\* unregister a null pointer, and the model stays out of that.
Remove ==
  /\ Go("running", "removed")
  /\ "input" \in held
  /\ held' = RemoveSource \ {"input", "rst", "wq"}
  /\ UNCHANGED <<use_irq, panelVars>>

-------------------------------------------------------------------------------
Next ==
  \/ Install \/ ProbeFails \/ RequestPorts \/ RequestRstFails \/ TestI2c
  \/ FirmwareGood \/ FirmwareBad \/ SensorGood \/ SensorBad
  \/ VersionUnread \/ \E v \in Versions : ReadVersion(v)
  \/ SendAtProbe \/ RequestInput \/ RequestInputFails \/ RequestIrq \/ RequestIrqFails
  \/ ResumeSendsCfg \/ Remove

Spec == Init /\ [][Next]_vars

-------------------------------------------------------------------------------
(* Properties. *)

\* Every configuration that leaves the driver carries the checksum of what is in it,
\* with the version forced to 0 for the panel at the probe and with the version put
\* back for the resumes after it (l.1386-1416, 1485-1493).
ConfigConsistent == sent.sum = sent.version

\* Once the panel has been configured, the driver keeps its own version in the
\* buffer: no resume sends the forcing version 0 again.
ResumeSendsOwnVersion ==
  pc = "running" /\ config.data = "group" => config.version = DrvVersion

\* The installed driver has exactly one source of events and the port it needs.
ModeOwnsItsSource ==
  pc = "running" =>
    /\ use_irq <=> "irq" \in held
    /\ use_irq <=> "timer" \notin held
    /\ use_irq <=> "int" \in held

\* Whatever failed on the way in, a removed driver has given everything back, and a
\* probe that failed keeps no port (it does keep goodix_wq).
NothingLeftBehind ==
  /\ pc = "removed" => held = {}
  /\ pc = "failed" => held \subseteq {"wq"}

\* "Firmware error, no config sent!" (l.1315) and the other refusals of init_panel:
\* a driver that has logged one sends no configuration.
RefusedMeansNotSent == refused => sent = Nothing
===============================================================================
