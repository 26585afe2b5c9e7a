--------------------------- MODULE ProbeCommands ---------------------------
(***************************************************************************)
(* The commands that look at a camera without knowing it (gatt-dump,       *)
(* read-values and notify-log of cli.py over ble_probe.py): scan, connect, *)
(* go through what discovery lists in its order, disconnect, and report.   *)
(*                                                                         *)
(* A read has a deadline; start_notify and stop_notify have none.  The     *)
(* events of notify-log are printed as they come and change nothing here.  *)
(***************************************************************************)
EXTENDS Naturals, Sequences

CONSTANTS
  Discoveries      \* what a camera may list: sequences of characteristics, each
                   \* with its properties and whether the filters match it

ASSUME DiscoveriesAssumption ==
  \A gatt \in Discoveries :
    gatt \in Seq([properties : SUBSET {"read", "notify"}, matches : BOOLEAN])

VARIABLES
  command,
  gatt,            \* client.services, flat
  pc,              \* where the command stands
  place,           \* the characteristic it is at, or the subscription to stop
  link,
  values,          \* read-values: what was read, or why it was not, in order
  subscriptions,   \* notify-log: the characteristics that were switched on
  subscription_errors,
  notifying,       \* the camera's side: what it sends notifications of
  exit             \* the exit code, NoExit while the command runs

vars == <<command, gatt, pc, place, link, values, subscriptions, subscription_errors,
          notifying, exit>>
results == <<values, subscriptions, subscription_errors>>

Commands == {"gatt-dump", "read-values", "notify-log"}
NoExit == 9
Success == 0
Failure == 1
NoSubscription == 2

Places == DOMAIN gatt

\* What the command selects: the property it needs, and a match of the filters.
Wanted(i) ==
  /\ (IF command = "read-values" THEN "read" ELSE "notify") \in gatt[i].properties
  /\ gatt[i].matches

\* The places where the command waits for the radio or for the time to pass.
Waiting == {"scan", "connect", "reading", "starting", "listening", "stopping", "leave"}

-----------------------------------------------------------------------------
Init ==
  /\ command \in Commands
  /\ gatt \in Discoveries
  /\ pc = "scan"
  /\ place = 1
  /\ link = FALSE
  /\ values = <<>> /\ subscriptions = <<>> /\ subscription_errors = <<>>
  /\ notifying = {}
  /\ exit = NoExit

Ends(code) == pc' = "ended" /\ exit' = code

ScanFinds ==
  /\ pc = "scan"
  /\ pc' = "connect"
  /\ UNCHANGED <<command, gatt, place, link, results, notifying, exit>>

\* Nothing that matches, or an error of the scan or the connection, which no
\* command catches.
FindsNothing ==
  /\ pc \in {"scan", "connect"}
  /\ Ends(Failure)
  /\ UNCHANGED <<command, gatt, place, link, results, notifying>>

\* gatt-dump has all it needs from the discovery.
Connects ==
  /\ pc = "connect"
  /\ link' = TRUE
  /\ pc' = IF command = "gatt-dump" THEN "leave" ELSE "next"
  /\ UNCHANGED <<command, gatt, place, results, notifying, exit>>

-----------------------------------------------------------------------------
(* The loop over the characteristics.                                      *)

Skip ==
  /\ pc = "next"
  /\ place \in Places
  /\ ~Wanted(place)
  /\ place' = place + 1
  /\ UNCHANGED <<command, gatt, pc, link, results, notifying, exit>>

Issue ==
  /\ pc = "next"
  /\ place \in Places
  /\ Wanted(place)
  /\ pc' = IF command = "read-values" THEN "reading" ELSE "starting"
  /\ UNCHANGED <<command, gatt, place, link, results, notifying, exit>>

\* Without a subscription there is nothing to wait for.
LoopEnds ==
  /\ pc = "next"
  /\ place \notin Places
  /\ pc' = IF subscriptions # <<>> THEN "listening" ELSE "leave"
  /\ place' = 1
  /\ UNCHANGED <<command, gatt, link, results, notifying, exit>>

GoOn == pc' = "next" /\ place' = place + 1

ReadOk ==
  /\ pc = "reading"
  /\ link
  /\ values' = Append(values, [place |-> place, read |-> TRUE])
  /\ GoOn
  /\ UNCHANGED <<command, gatt, link, subscriptions, subscription_errors, notifying, exit>>

\* A read that only an error ends.
ReadFails_NoDeadline ==
  /\ pc = "reading"
  /\ ~link
  /\ values' = Append(values, [place |-> place, read |-> FALSE])
  /\ GoOn
  /\ UNCHANGED <<command, gatt, link, subscriptions, subscription_errors, notifying, exit>>

\* read_characteristic: an error, or the deadline.
ReadFails ==
  /\ pc = "reading"
  /\ values' = Append(values, [place |-> place, read |-> FALSE])
  /\ GoOn
  /\ UNCHANGED <<command, gatt, link, subscriptions, subscription_errors, notifying, exit>>

StartOk ==
  /\ pc = "starting"
  /\ link
  /\ subscriptions' = Append(subscriptions, place)
  /\ notifying' = notifying \cup {place}
  /\ GoOn
  /\ UNCHANGED <<command, gatt, link, values, subscription_errors, exit>>

\* A loop that gives up at the first error.
StartFails_GivesUp ==
  /\ pc = "starting"
  /\ subscription_errors' = Append(subscription_errors, place)
  /\ pc' = IF subscriptions # <<>> THEN "listening" ELSE "leave"
  /\ place' = 1
  /\ UNCHANGED <<command, gatt, link, values, subscriptions, notifying, exit>>

\* _start_notify keeps the error; the camera may have carried the request out.
StartFails ==
  /\ pc = "starting"
  /\ subscription_errors' = Append(subscription_errors, place)
  /\ notifying' \in {notifying, IF link THEN notifying \cup {place} ELSE notifying}
  /\ GoOn
  /\ UNCHANGED <<command, gatt, link, values, subscriptions, exit>>

-----------------------------------------------------------------------------
(* The rest of notify-log, and the end.                                    *)

\* The sleep lasts as long as it was asked to, with or without the link.
ListenEnds ==
  /\ pc = "listening"
  /\ pc' = "stopping"
  /\ UNCHANGED <<command, gatt, place, link, results, notifying, exit>>

AfterStop ==
  /\ pc' = IF place = Len(subscriptions) THEN "leave" ELSE "stopping"
  /\ place' = place + 1
  /\ UNCHANGED <<command, gatt, link, results, exit>>

StopOk ==
  /\ pc = "stopping"
  /\ link
  /\ notifying' = notifying \ {subscriptions[place]}
  /\ AfterStop

\* _stop_notify drops the error.
StopFails ==
  /\ pc = "stopping"
  /\ UNCHANGED notifying
  /\ AfterStop

\* The end of the async with, and the report of the command.
Report ==
  /\ pc = "leave"
  /\ link' = FALSE
  /\ notifying' = {}
  /\ Ends(IF command = "notify-log" /\ subscriptions = <<>> THEN NoSubscription ELSE Success)
  /\ UNCHANGED <<command, gatt, place, results>>

\* Any wait may end in an exception that nothing catches, an error of the
\* disconnection or an interrupt: the connection is closed, as far as it can be.
Raises ==
  /\ pc \in Waiting
  /\ Ends(Failure)
  /\ link' \in IF pc = "leave" THEN {link, FALSE} ELSE {FALSE}
  /\ notifying' = IF link' THEN notifying ELSE {}
  /\ UNCHANGED <<command, gatt, place, results>>

LinkLost ==
  /\ link
  /\ link' = FALSE
  /\ notifying' = {}
  /\ UNCHANGED <<command, gatt, pc, place, results, exit>>

\* What comes without an answer of the camera: the command's own steps, and
\* the waits that have a deadline.
OwnStep ==
  \/ FindsNothing \/ Skip \/ Issue \/ LoopEnds \/ ReadFails \/ ListenEnds \/ Report

Next ==
  \/ OwnStep
  \/ ScanFinds \/ Connects \/ ReadOk
  \/ StartOk \/ StartFails \/ StopOk \/ StopFails
  \/ Raises \/ LinkLost

Spec == Init /\ [][Next]_vars /\ WF_vars(OwnStep)

-----------------------------------------------------------------------------
(* Properties.                                                             *)

Numbers == Nat \ {0}
Reads == [place : Numbers, read : BOOLEAN]

ProbeTypeOK ==
  /\ command \in Commands
  /\ gatt \in Discoveries
  /\ pc \in Waiting \cup {"next", "ended"}
  /\ place \in Numbers
  /\ link \in BOOLEAN
  /\ values \in Seq(Reads)
  /\ subscriptions \in Seq(Numbers)
  /\ subscription_errors \in Seq(Numbers)
  /\ notifying \subseteq Numbers
  /\ exit \in {NoExit, Success, Failure, NoSubscription}

Selected == {i \in Places : Wanted(i)}
PlacesOf(numbers) == {numbers[n] : n \in DOMAIN numbers}

\* No exit code but that of a complete report hides an error (read_gatt_values,
\* listen_notifications): with 0, each selected characteristic was tried once,
\* in the order of the discovery, and is in the report with its value or error;
\* a notify-log has heard something on, and the camera has been left without
\* notifications although the errors of stop_notify are dropped.
ExitZeroIsComplete ==
  exit = Success =>
    /\ ~link /\ notifying = {}
    /\ command = "read-values" =>
         /\ {values[n].place : n \in DOMAIN values} = Selected
         /\ \A m, n \in DOMAIN values : m < n => values[m].place < values[n].place
    /\ command = "notify-log" =>
         /\ subscriptions # <<>>
         /\ PlacesOf(subscriptions) \cup PlacesOf(subscription_errors) = Selected
         /\ PlacesOf(subscriptions) \cap PlacesOf(subscription_errors) = {}
         /\ \A m, n \in DOMAIN subscriptions : m < n => subscriptions[m] < subscriptions[n]
         /\ place = Len(subscriptions) + 1

\* A camera that never answers delays every command by its deadlines only, but
\* for notify-log, which waits for ever where the code sets none: at a
\* start_notify or a stop_notify.
StuckOnlyUnanswered ==
  <>(pc = "ended") \/ <>[](command = "notify-log" /\ pc \in {"starting", "stopping"})
=============================================================================
