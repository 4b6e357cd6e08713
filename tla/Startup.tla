------------------------------ MODULE Startup ------------------------------
(***************************************************************************)
(* main.c: app_main(), with led.c, around EthLink.  The event loop task    *)
(* runs from eth_start() on, while app_main is still at its work.          *)
(*                                                                         *)
(* What ESP_ERROR_CHECK finds failing restarts the chip; a subsystem that  *)
(* fails is logged and gone without.  Only the flash outlives a restart.   *)
(***************************************************************************)
EXTENDS EthLink

CONSTANT
  MaxAborts       \* bound: restarts by a failed ESP_ERROR_CHECK

ASSUME StartupAssumption == MaxAborts \in Nat

VARIABLES
  main,      \* what app_main is about to do
  nvs,       \* the NVS partition: "ok", "stale" (full or of a newer version)
  aborts,    \* restarts so far
  leds,      \* whether led_init() has made the pins outputs
  radio,     \* whether espnow_start() got to its dispatch task
  lit        \* the LEDs that have been lit

mainVars == <<main, nvs, aborts, leds, radio, lit>>
allVars == <<vars, mainVars>>

MainTypeOK ==
  /\ main \in {"nvs", "erase", "nvs again", "loop", "leds", "mdns", "mqtt", "eth",
               "espnow", "running"}
  /\ nvs \in {"ok", "stale"}
  /\ aborts \in 0..MaxAborts
  /\ leds \in {"unset", "set", "failed"}
  /\ radio \in BOOLEAN
  /\ lit \subseteq {"mqtt", "espnow"}

PowerOn ==
  /\ Init /\ client = FALSE
  /\ main = "nvs" /\ nvs \in {"ok", "stale"} /\ aborts = 0
  /\ leds = "unset" /\ radio = FALSE /\ lit = {}

-----------------------------------------------------------------------------
(* app_main(), a call at a time. *)

Goes(from, to) == main = from /\ main' = to

(* A call that changes nothing a later one depends on. *)
Passes(from, to) ==
  Goes(from, to) /\ UNCHANGED <<vars, nvs, aborts, leds, radio, lit>>

(* ESP_ERROR_CHECK: the chip restarts, and RAM is as it was at power-on,   *)
(* which is where all of EthLink's variables still are.                    *)
Abort(from) ==
  /\ aborts < MaxAborts
  /\ Goes(from, "nvs")
  /\ aborts' = aborts + 1
  /\ leds' = "unset"
  /\ UNCHANGED <<vars, nvs, radio, lit>>

(* Fault: a partition with no room is not erased. *)
NvsInitNoErase == (nvs = "ok" /\ Passes("nvs", "loop")) \/ Abort("nvs")

NvsInit == Passes("nvs", IF nvs = "stale" THEN "erase" ELSE "loop") \/ Abort("nvs")

NvsErase ==
  \/ /\ Goes("erase", "nvs again")
     /\ nvs' = "ok"
     /\ UNCHANGED <<vars, aborts, leds, radio, lit>>
  \/ Abort("erase")

(* The second nvs_flash_init(), esp_netif_init() and the event loop. *)
Basics ==
  \/ Passes("nvs again", "loop") \/ Abort("nvs again")
  \/ Passes("loop", "leds") \/ Abort("loop")

LedInit ==
  /\ Goes("leds", "mdns")
  /\ leds' \in {"set", "failed"}
  /\ UNCHANGED <<vars, nvs, aborts, radio, lit>>

MdnsInit == Passes("mdns", "mqtt") \/ Abort("mdns")

(* A client whose handler could not be registered is a client all the same.*)
MqttInit ==
  /\ Goes("mqtt", "eth")
  /\ client' \in BOOLEAN
  /\ UNCHANGED <<configured, boot, phyVars, netVars, queue, at, now, info, serviceVars,
                 nvs, aborts, leds, radio, lit>>

(* eth_start() stage by stage, until it has started the driver or failed. *)
StartEthernet ==
  \/ main = "eth" /\ EthStart /\ UNCHANGED mainVars
  \/ boot \in {"up", "failed"} /\ Passes("eth", "espnow")

(* The dispatch task runs before espnow_start() has returned. *)
EspnowStart ==
  /\ main = "espnow"
  /\ \/ ~radio /\ radio' = TRUE /\ UNCHANGED main
     \/ main' = "running" /\ UNCHANGED radio
  /\ UNCHANGED <<vars, nvs, aborts, leds, lit>>

AppMain ==
  \/ NvsInit \/ NvsErase \/ Basics \/ LedInit \/ MdnsInit
  \/ MqttInit \/ StartEthernet \/ EspnowStart

-----------------------------------------------------------------------------
(* The event loop, the cable and DHCP, as in EthLink. *)
Link == (Outside \/ EventLoop) /\ UNCHANGED mainVars

(* led_set(), in the broker client's task and in the dispatch task. *)
Light(which) ==
  /\ IF which = "mqtt" THEN mqtt ELSE radio
  /\ lit' = lit \cup {which}
  /\ UNCHANGED <<vars, main, nvs, aborts, leds, radio>>

Step == AppMain \/ Link \/ \E which \in {"mqtt", "espnow"} : Light(which)

(* app_main and the event loop task run, and httpd_stop() returns. *)
StartupSpec ==
  /\ PowerOn /\ [][Step]_allVars
  /\ WF_allVars(AppMain) /\ WF_allVars(EventLoop /\ Link)

-----------------------------------------------------------------------------
(* Properties *)

(* "so neither can light an LED that has not been configured as an output  *)
(* yet" (main.c line 128): led_init() has been called before any task can  *)
(* light one.                                                              *)
LitAfterInit == lit # {} => leds # "unset"

(* Events reach the handlers of a half-started device too, and the pages   *)
(* still show the link as the PHY has it once all are handled.             *)
StartupInv == LinkInv /\ MainTypeOK /\ LitAfterInit

(* "Subsystem failures are logged, not fatal" (main.c line 142), and NVS   *)
(* that is full or of a newer version is erased: however often the basics  *)
(* fail before, once they do not the device comes up with what it has.     *)
ComesUp == <>(main = "running")
=============================================================================
