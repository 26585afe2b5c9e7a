------------------------- MODULE ProbeCommands_proofs -------------------------
(***************************************************************************)
(* Theorems about ProbeCommands, whatever a camera lists.                  *)
(***************************************************************************)
EXTENDS ProbeCommands, TLAPS

-----------------------------------------------------------------------------
(* Reports.                                                                *)

\* What an entry at the end adds to a report.
LEMMA Appended ==
  ASSUME NEW S, NEW s \in Seq(S), NEW e \in S
  PROVE  /\ Append(s, e) \in Seq(S)
         /\ Append(s, e) # <<>>
         /\ Len(Append(s, e)) = Len(s) + 1 /\ Len(s) \in Nat
         /\ DOMAIN s = 1 .. Len(s)
         /\ DOMAIN Append(s, e) = 1 .. Len(s) + 1
         /\ Append(s, e)[Len(s) + 1] = e
         /\ \A i \in 1 .. Len(s) : Append(s, e)[i] = s[i]
  OBVIOUS

Increasing(numbers) ==
  \A m, n \in DOMAIN numbers : m < n => numbers[m] < numbers[n]

\* A number above all others keeps a report in order.
LEMMA AppendedNumber ==
  ASSUME NEW s \in Seq(Numbers), NEW e \in Numbers
  PROVE  /\ PlacesOf(Append(s, e)) = PlacesOf(s) \cup {e}
         /\ Increasing(s) /\ (\A i \in PlacesOf(s) : i < e) => Increasing(Append(s, e))
<1>1. /\ Len(s) \in Nat /\ DOMAIN s = 1 .. Len(s)
      /\ DOMAIN Append(s, e) = 1 .. Len(s) + 1
      /\ Append(s, e)[Len(s) + 1] = e
      /\ \A i \in 1 .. Len(s) : Append(s, e)[i] = s[i]
  BY Appended
<1>2. \A i \in 1 .. Len(s) + 1 : i = Len(s) + 1 \/ i \in 1 .. Len(s)
  BY <1>1
<1>3. \A i \in 1 .. Len(s) : i \in 1 .. Len(s) + 1
  BY <1>1
<1>4. PlacesOf(Append(s, e)) = PlacesOf(s) \cup {e}
  <2>1. Len(s) + 1 \in 1 .. Len(s) + 1
    BY <1>1
  <2>2. QED BY <1>1, <1>2, <1>3, <2>1 DEF PlacesOf
<1>5. ASSUME Increasing(s), \A i \in PlacesOf(s) : i < e,
             NEW m \in 1 .. Len(s) + 1, NEW n \in 1 .. Len(s) + 1, m < n
      PROVE  Append(s, e)[m] < Append(s, e)[n]
  <2>1. m \in 1 .. Len(s)
    BY <1>1, <1>5
  <2>2. CASE n = Len(s) + 1
    BY <1>1, <1>5, <2>1, <2>2 DEF PlacesOf
  <2>3. CASE n \in 1 .. Len(s)
    BY <1>1, <1>5, <2>1, <2>3 DEF Increasing
  <2>4. QED BY <1>2, <2>2, <2>3
<1>6. QED BY <1>1, <1>4, <1>5 DEF Increasing

ReadPlaces(reads) == {reads[n].place : n \in DOMAIN reads}
InOrder(reads) == \A m, n \in DOMAIN reads : m < n => reads[m].place < reads[n].place

\* The same of the report of read-values.
LEMMA AppendedRead ==
  ASSUME NEW s \in Seq(Reads), NEW e \in Reads
  PROVE  /\ ReadPlaces(Append(s, e)) = ReadPlaces(s) \cup {e.place}
         /\ InOrder(s) /\ (\A i \in ReadPlaces(s) : i < e.place) => InOrder(Append(s, e))
<1>1. /\ Len(s) \in Nat /\ DOMAIN s = 1 .. Len(s)
      /\ DOMAIN Append(s, e) = 1 .. Len(s) + 1
      /\ Append(s, e)[Len(s) + 1] = e
      /\ \A i \in 1 .. Len(s) : Append(s, e)[i] = s[i]
  BY Appended
<1>2. \A i \in 1 .. Len(s) + 1 : i = Len(s) + 1 \/ i \in 1 .. Len(s)
  BY <1>1
<1>3. \A i \in 1 .. Len(s) : i \in 1 .. Len(s) + 1
  BY <1>1
<1>4. ReadPlaces(Append(s, e)) = ReadPlaces(s) \cup {e.place}
  <2>1. Len(s) + 1 \in 1 .. Len(s) + 1
    BY <1>1
  <2>2. QED BY <1>1, <1>2, <1>3, <2>1 DEF ReadPlaces
<1>5. ASSUME InOrder(s), \A i \in ReadPlaces(s) : i < e.place,
             NEW m \in 1 .. Len(s) + 1, NEW n \in 1 .. Len(s) + 1, m < n
      PROVE  Append(s, e)[m].place < Append(s, e)[n].place
  <2>1. m \in 1 .. Len(s)
    BY <1>1, <1>5
  <2>2. CASE n = Len(s) + 1
    BY <1>1, <1>5, <2>1, <2>2 DEF ReadPlaces
  <2>3. CASE n \in 1 .. Len(s)
    BY <1>1, <1>5, <2>1, <2>3 DEF InOrder
  <2>4. QED BY <1>2, <2>2, <2>3
<1>6. QED BY <1>1, <1>4, <1>5 DEF InOrder

-----------------------------------------------------------------------------
(* Types.                                                                  *)

\* The next number is a number.
LEMMA NumbersGrow == 1 \in Numbers /\ \A n \in Numbers : n + 1 \in Numbers
BY DEF Numbers

\* A command starts with the right types.
LEMMA InitProbeTyped == Init => ProbeTypeOK
<1>1. /\ <<>> \in Seq(Reads)
      /\ <<>> \in Seq(Numbers)
  OBVIOUS
<1>2. QED
  BY <1>1, NumbersGrow DEF Init, ProbeTypeOK, Waiting, NoExit

\* Every step keeps them.
LEMMA StepProbeTyped == ProbeTypeOK /\ [Next]_vars => ProbeTypeOK'
<1> SUFFICES ASSUME ProbeTypeOK, [Next]_vars
             PROVE  ProbeTypeOK'
  OBVIOUS
<1> USE NumbersGrow DEF ProbeTypeOK, Waiting
<1>1. CASE ScanFinds \/ Connects \/ Skip \/ Issue \/ LoopEnds \/ ListenEnds
  BY <1>1 DEF ScanFinds, Connects, Skip, Issue, LoopEnds, ListenEnds, results
<1>2. CASE FindsNothing \/ Report \/ Raises
  BY <1>2 DEF FindsNothing, Report, Raises, Ends, results, Success, Failure,
              NoSubscription
<1>3. CASE ReadOk \/ ReadFails
  <2>1. values' \in Seq(Reads)
    <3>1. /\ [place |-> place, read |-> TRUE] \in Reads
          /\ [place |-> place, read |-> FALSE] \in Reads
      BY DEF Reads
    <3>2. \A e \in Reads : Append(values, e) \in Seq(Reads)
      BY Appended
    <3>3. QED BY <1>3, <3>1, <3>2 DEF ReadOk, ReadFails
  <2>2. QED BY <1>3, <2>1 DEF ReadOk, ReadFails, GoOn
<1>4. CASE StartOk \/ StartFails
  <2>1. \A s \in Seq(Numbers) : Append(s, place) \in Seq(Numbers)
    BY Appended
  <2>2. /\ subscriptions' \in Seq(Numbers)
        /\ subscription_errors' \in Seq(Numbers)
    BY <1>4, <2>1 DEF StartOk, StartFails
  <2>3. QED BY <1>4, <2>2 DEF StartOk, StartFails, GoOn
<1>5. CASE StopOk \/ StopFails
  BY <1>5 DEF StopOk, StopFails, AfterStop, results
<1>6. CASE LinkLost \/ UNCHANGED vars
  BY <1>6 DEF LinkLost, vars, results
<1>7. QED
  BY <1>1, <1>2, <1>3, <1>4, <1>5, <1>6 DEF Next, OwnStep

\* A command keeps its types, whatever the camera lists.
THEOREM ProbeTypes == Spec => []ProbeTypeOK
BY InitProbeTyped, StepProbeTyped, PTL DEF Spec

-----------------------------------------------------------------------------
(* The report.  Before the loop tries the characteristic at a place, the   *)
(* report holds exactly the selected ones before it; so at the end of the  *)
(* list it holds all of them, and only a command that came so far reports  *)
(* with 0.                                                                 *)

SelectedBefore(k) == {i \in Places : Wanted(i) /\ i < k}

ReadUpTo(k) == ReadPlaces(values) = SelectedBefore(k) /\ InOrder(values)

TriedUpTo(k) ==
  /\ PlacesOf(subscriptions) \cup PlacesOf(subscription_errors) = SelectedBefore(k)
  /\ PlacesOf(subscriptions) \cap PlacesOf(subscription_errors) = {}
  /\ Increasing(subscriptions)

ReportedUpTo(k) ==
  /\ command = "read-values" => ReadUpTo(k)
  /\ command = "notify-log" => TriedUpTo(k)

\* The place behind the last characteristic.
Behind == Len(gatt) + 1

Reported == command # "gatt-dump" => ReportedUpTo(Behind)

NothingYet ==
  /\ values = <<>> /\ subscriptions = <<>> /\ subscription_errors = <<>>
  /\ place = 1

Trying(c) == command = c /\ place \in Places /\ Wanted(place)

AllStopped == subscriptions # <<>> => place = Len(subscriptions) + 1

ReportInv ==
  /\ pc \in {"scan", "connect"} => NothingYet
  /\ pc \in {"next", "reading", "starting"} => ReportedUpTo(place) /\ command # "gatt-dump"
  /\ pc = "reading" => Trying("read-values")
  /\ pc = "starting" => Trying("notify-log")
  /\ pc \in {"listening", "stopping", "leave"} => Reported
  /\ pc = "listening" => place = 1 /\ subscriptions # <<>>
  /\ pc = "stopping" => place \in 1 .. Len(subscriptions)
  /\ pc = "leave" => AllStopped
  /\ pc # "ended" => exit # Success
  /\ exit = Success =>
       /\ ~link /\ notifying = {}
       /\ Reported /\ AllStopped
       /\ command = "notify-log" => subscriptions # <<>>

\* The characteristics are the places from 1 to the last.
LEMMA PlacesAre ==
  ASSUME ProbeTypeOK
  PROVE  Places = 1 .. Len(gatt) /\ Len(gatt) \in Nat
BY DiscoveriesAssumption DEF ProbeTypeOK, Places

\* Behind the last place, everything selected is before.
LEMMA AllSelected ==
  ASSUME ProbeTypeOK
  PROVE  /\ SelectedBefore(Behind) = Selected
         /\ SelectedBefore(1) = {}
         /\ place \notin Places => SelectedBefore(place) = SelectedBefore(Behind)
<1>1. Places = 1 .. Len(gatt) /\ Len(gatt) \in Nat /\ place \in Nat \ {0}
  BY PlacesAre DEF ProbeTypeOK, Numbers
<1>2. \A i \in Places : i < Behind /\ ~(i < 1) /\ (place \notin Places => i < place)
  BY <1>1 DEF Behind
<1>3. QED BY <1>2 DEF SelectedBefore, Selected

\* One place further.
LEMMA NextSelected ==
  ASSUME ProbeTypeOK, place \in Places
  PROVE  /\ ~Wanted(place) => SelectedBefore(place + 1) = SelectedBefore(place)
         /\ Wanted(place) => SelectedBefore(place + 1) = SelectedBefore(place) \cup {place}
         /\ \A i \in SelectedBefore(place) : i < place
         /\ place \notin SelectedBefore(place)
<1>1. Places = 1 .. Len(gatt) /\ Len(gatt) \in Nat /\ place \in Nat \ {0}
  BY PlacesAre DEF ProbeTypeOK, Numbers
<1>2. \A i \in Places : i < place + 1 <=> i < place \/ i = place
  BY <1>1
<1>3. ~(place < place)
  BY <1>1
<1>4. QED BY <1>2, <1>3 DEF SelectedBefore

\* The invariant says what was to be shown.
LEMMA ReportInvSuffices == ProbeTypeOK /\ ReportInv => ExitZeroIsComplete
<1> SUFFICES ASSUME ProbeTypeOK, ReportInv, exit = Success
             PROVE  /\ ~link /\ notifying = {}
                    /\ command = "read-values" =>
                         /\ {values[n].place : n \in DOMAIN values} = Selected
                         /\ \A m, n \in DOMAIN values :
                              m < n => values[m].place < values[n].place
                    /\ command = "notify-log" =>
                         /\ subscriptions # <<>>
                         /\ PlacesOf(subscriptions) \cup PlacesOf(subscription_errors) = Selected
                         /\ PlacesOf(subscriptions) \cap PlacesOf(subscription_errors) = {}
                         /\ \A m, n \in DOMAIN subscriptions :
                              m < n => subscriptions[m] < subscriptions[n]
                         /\ place = Len(subscriptions) + 1
  BY DEF ExitZeroIsComplete
<1>1. Reported /\ AllStopped /\ ~link /\ notifying = {}
      /\ (command = "notify-log" => subscriptions # <<>>)
  BY DEF ReportInv
<1>2. SelectedBefore(Behind) = Selected
  BY AllSelected
<1>3. command = "read-values" => ReadPlaces(values) = Selected /\ InOrder(values)
  BY <1>1, <1>2 DEF Reported, ReportedUpTo, ReadUpTo
<1>4. command = "notify-log" =>
        /\ PlacesOf(subscriptions) \cup PlacesOf(subscription_errors) = Selected
        /\ PlacesOf(subscriptions) \cap PlacesOf(subscription_errors) = {}
        /\ Increasing(subscriptions)
  BY <1>1, <1>2 DEF Reported, ReportedUpTo, TriedUpTo
<1>5. QED BY <1>1, <1>3, <1>4 DEF ReadPlaces, InOrder, Increasing, AllStopped

\* Before a command there is no report.
LEMMA InitReport == Init => ReportInv
BY DEF Init, ReportInv, NothingYet, NoExit, Success

\* An empty report is complete before the first place.
LEMMA NothingReported ==
  ASSUME ProbeTypeOK, NothingYet
  PROVE  ReportedUpTo(place) /\ AllStopped
<1>1. SelectedBefore(place) = {}
  BY AllSelected DEF NothingYet
<1>2. \A s : s = <<>> => /\ PlacesOf(s) = {} /\ ReadPlaces(s) = {}
                         /\ Increasing(s) /\ InOrder(s)
  BY DEF PlacesOf, ReadPlaces, Increasing, InOrder
<1>3. QED
  BY <1>1, <1>2 DEF NothingYet, ReportedUpTo, ReadUpTo, TriedUpTo, AllStopped

\* A read that is answered, or fails, is reported.
LEMMA ReadReports ==
  ASSUME ProbeTypeOK, ReportInv, ReadOk \/ ReadFails
  PROVE  ReportInv'
<1> DEFINE ok == [place |-> place, read |-> TRUE]
           failed == [place |-> place, read |-> FALSE]
<1>1. /\ pc = "reading" /\ pc' = "next" /\ place' = place + 1
      /\ UNCHANGED <<command, gatt, link, subscriptions, subscription_errors,
                     notifying, exit>>
      /\ \E e \in {ok, failed} : values' = Append(values, e)
  BY DEF ReadOk, ReadFails, GoOn
<1>2. /\ command = "read-values" /\ place \in Places /\ Wanted(place)
      /\ ReadUpTo(place) /\ exit # Success
  BY <1>1 DEF ReportInv, Trying, ReportedUpTo
<1>3. /\ ok \in Reads /\ failed \in Reads /\ ok.place = place /\ failed.place = place
      /\ values \in Seq(Reads)
  BY DEF ProbeTypeOK, Reads
<1> HIDE DEF ok, failed
<1>4. PICK e \in Reads : values' = Append(values, e) /\ e.place = place
  BY <1>1, <1>3
<1>5. /\ \A i \in SelectedBefore(place) : i < place
      /\ SelectedBefore(place + 1) = SelectedBefore(place) \cup {place}
  BY <1>2, NextSelected
<1>6. ReadPlaces(values') = SelectedBefore(place + 1) /\ InOrder(values')
  BY <1>2, <1>3, <1>4, <1>5, AppendedRead DEF ReadUpTo
<1>7. SelectedBefore(place + 1) = SelectedBefore(place)'
  BY <1>1 DEF SelectedBefore, Places, Wanted
<1>8. ReadUpTo(place)'
  BY <1>6, <1>7 DEF ReadUpTo, ReadPlaces, InOrder
<1>9. QED BY <1>1, <1>2, <1>8 DEF ReportInv, ReportedUpTo

\* A subscription that is answered, or fails, is reported.
LEMMA StartReports ==
  ASSUME ProbeTypeOK, ReportInv, StartOk \/ StartFails
  PROVE  ReportInv'
<1>1. /\ pc = "starting" /\ pc' = "next" /\ place' = place + 1
      /\ UNCHANGED <<command, gatt, link, values, exit>>
  BY DEF StartOk, StartFails, GoOn
<1>2. /\ command = "notify-log" /\ place \in Places /\ Wanted(place)
      /\ TriedUpTo(place) /\ exit # Success
  BY <1>1 DEF ReportInv, Trying, ReportedUpTo
<1>3. /\ subscriptions \in Seq(Numbers) /\ subscription_errors \in Seq(Numbers)
      /\ place \in Numbers
  BY DEF ProbeTypeOK
<1>4. /\ \A i \in SelectedBefore(place) : i < place
      /\ place \notin SelectedBefore(place)
      /\ SelectedBefore(place + 1) = SelectedBefore(place) \cup {place}
  BY <1>2, NextSelected
<1>5. SelectedBefore(place + 1) = SelectedBefore(place)'
  BY <1>1 DEF SelectedBefore, Places, Wanted
<1>6. /\ PlacesOf(subscriptions') \cup PlacesOf(subscription_errors') = SelectedBefore(place + 1)
      /\ PlacesOf(subscriptions') \cap PlacesOf(subscription_errors') = {}
      /\ Increasing(subscriptions')
  <2>1. CASE StartOk
    <3>1. /\ subscriptions' = Append(subscriptions, place)
          /\ subscription_errors' = subscription_errors
      BY <2>1 DEF StartOk
    <3>2. /\ PlacesOf(subscriptions') = PlacesOf(subscriptions) \cup {place}
          /\ (\A i \in PlacesOf(subscriptions) : i < place) => Increasing(subscriptions')
      BY <1>2, <1>3, <3>1, AppendedNumber DEF TriedUpTo
    <3>3. QED BY <1>2, <1>4, <3>1, <3>2 DEF TriedUpTo
  <2>2. CASE StartFails
    <3>1. /\ subscription_errors' = Append(subscription_errors, place)
          /\ subscriptions' = subscriptions
      BY <2>2 DEF StartFails
    <3>2. PlacesOf(subscription_errors') = PlacesOf(subscription_errors) \cup {place}
      BY <1>3, <3>1, AppendedNumber
    <3>3. QED BY <1>2, <1>4, <3>1, <3>2 DEF TriedUpTo
  <2>3. QED BY <2>1, <2>2
<1>7. TriedUpTo(place)'
  BY <1>5, <1>6 DEF TriedUpTo, PlacesOf, Increasing
<1>8. QED BY <1>1, <1>2, <1>7 DEF ReportInv, ReportedUpTo

\* What does not touch the report keeps it.
LEMMA SameReport ==
  ASSUME UNCHANGED <<command, gatt, results>>
  PROVE  /\ Reported' = Reported
         /\ \A k : ReportedUpTo(k)' = ReportedUpTo(k)
         /\ Places' = Places /\ \A i : Wanted(i)' = Wanted(i)
BY DEF Reported, ReportedUpTo, ReadUpTo, TriedUpTo, SelectedBefore, Behind, Places,
       Wanted, PlacesOf, ReadPlaces, InOrder, Increasing, results

\* Every step keeps the account of the report.
LEMMA StepReport == ProbeTypeOK /\ ReportInv /\ [Next]_vars => ReportInv'
<1> SUFFICES ASSUME ProbeTypeOK, ReportInv, [Next]_vars
             PROVE  ReportInv'
  OBVIOUS
<1>1. CASE ScanFinds
  BY <1>1 DEF ScanFinds, ReportInv, NothingYet, results
<1>2. CASE FindsNothing
  BY <1>2 DEF FindsNothing, Ends, ReportInv, Failure, Success
<1>3. CASE Connects
  <2>1. ReportedUpTo(place) /\ AllStopped /\ exit # Success /\ UNCHANGED exit
    BY <1>3, NothingReported DEF Connects, ReportInv
  <2>2. ReportedUpTo(place)'
    BY <1>3, <2>1, SameReport DEF Connects, ReportedUpTo, ReadUpTo, TriedUpTo,
       SelectedBefore, Places, Wanted, PlacesOf, ReadPlaces, InOrder, Increasing, results
  <2>3. AllStopped' /\ exit' # Success
    BY <1>3, <2>1 DEF Connects, AllStopped, results
  <2>4. command' = "gatt-dump" => Reported'
    BY DEF Reported
  <2>5. QED BY <1>3, <2>2, <2>3, <2>4 DEF Connects, ReportInv
<1>4. CASE Skip
  <2>1. ReportedUpTo(place + 1)
    <3>1. SelectedBefore(place + 1) = SelectedBefore(place)
      BY <1>4, NextSelected DEF Skip
    <3>2. QED BY <1>4, <3>1 DEF Skip, ReportInv, ReportedUpTo, ReadUpTo, TriedUpTo
  <2>2. ReportedUpTo(place)'
    BY <1>4, <2>1 DEF Skip, ReportedUpTo, ReadUpTo, TriedUpTo, SelectedBefore, Places,
       Wanted, PlacesOf, ReadPlaces, InOrder, Increasing, results
  <2>3. QED BY <1>4, <2>2 DEF Skip, ReportInv
<1>5. CASE Issue
  <2>1. ReportedUpTo(place)'
    BY <1>5 DEF Issue, ReportInv, ReportedUpTo, ReadUpTo, TriedUpTo, SelectedBefore,
       Places, Wanted, PlacesOf, ReadPlaces, InOrder, Increasing, results
  <2>2. /\ pc' = "reading" => Trying("read-values")'
        /\ pc' = "starting" => Trying("notify-log")'
    BY <1>5 DEF Issue, ReportInv, Trying, Places, Wanted, ProbeTypeOK, Commands
  <2>3. QED BY <1>5, <2>1, <2>2 DEF Issue, ReportInv
<1>6. CASE LoopEnds
  <2>1. ReportedUpTo(Behind)
    BY <1>6, AllSelected DEF LoopEnds, ReportInv, ReportedUpTo, ReadUpTo, TriedUpTo
  <2>2. Reported'
    BY <1>6, <2>1, SameReport DEF LoopEnds, Reported
  <2>3. QED BY <1>6, <2>2 DEF LoopEnds, ReportInv, AllStopped, results
<1>7. CASE ReadOk \/ ReadFails
  BY <1>7, ReadReports
<1>8. CASE StartOk \/ StartFails
  BY <1>8, StartReports
<1>9. CASE ListenEnds
  <2>1. Reported' /\ exit # Success /\ UNCHANGED exit
    BY <1>9, SameReport DEF ListenEnds, ReportInv
  <2>2. 1 \in 1 .. Len(subscriptions)
    BY <1>9 DEF ListenEnds, ReportInv, ProbeTypeOK
  <2>3. QED BY <1>9, <2>1, <2>2 DEF ListenEnds, ReportInv, results
<1>10. CASE StopOk \/ StopFails
  <2>1. pc = "stopping" /\ AfterStop
    BY <1>10 DEF StopOk, StopFails
  <2>2. Reported' /\ exit # Success /\ UNCHANGED exit
    BY <2>1, SameReport DEF AfterStop, ReportInv
  <2>3. place \in 1 .. Len(subscriptions) /\ Len(subscriptions) \in Nat
    BY <2>1 DEF ReportInv, ProbeTypeOK
  <2>4. /\ pc' = "leave" => AllStopped'
        /\ pc' = "stopping" => place' \in 1 .. Len(subscriptions')
    BY <2>1, <2>3 DEF AfterStop, AllStopped, results
  <2>5. QED BY <2>1, <2>2, <2>4 DEF AfterStop, ReportInv
<1>11. CASE Report
  <2>1. Reported' /\ AllStopped'
    BY <1>11, SameReport DEF Report, ReportInv, AllStopped, results
  <2>2. exit' = Success /\ command = "notify-log" => subscriptions # <<>>
    BY <1>11 DEF Report, Ends, NoSubscription, Success
  <2>3. QED BY <1>11, <2>1, <2>2 DEF Report, Ends, ReportInv, results
<1>12. CASE Raises
  BY <1>12 DEF Raises, Ends, ReportInv, Failure, Success
<1>13. CASE LinkLost \/ UNCHANGED vars
  <2>1. /\ UNCHANGED <<command, gatt, pc, place, results, exit>>
        /\ link' => link
        /\ notifying = {} => notifying' = {}
    BY <1>13 DEF LinkLost, vars, results
  <2>2. Reported' = Reported /\ Places' = Places /\ \A i : Wanted(i)' = Wanted(i)
    BY <2>1, SameReport
  <2>3. ReportedUpTo(place)' = ReportedUpTo(place)
    BY <2>1 DEF ReportedUpTo, ReadUpTo, TriedUpTo, SelectedBefore, Places,
       Wanted, PlacesOf, ReadPlaces, InOrder, Increasing, results
  <2>4. /\ Trying("read-values") => Trying("read-values")'
        /\ Trying("notify-log") => Trying("notify-log")'
    BY <2>1 DEF Trying, Places, Wanted
  <2>5. QED BY <2>1, <2>2, <2>3, <2>4 DEF ReportInv, NothingYet, AllStopped, results
<1>14. QED
  BY <1>1, <1>2, <1>3, <1>4, <1>5, <1>6, <1>7, <1>8, <1>9, <1>10, <1>11, <1>12, <1>13
  DEF Next, OwnStep

\* A command that reports with 0 has tried every characteristic it selected,
\* once and in order, whatever the camera lists and however often it fails.
THEOREM ZeroIsComplete == Spec => []ExitZeroIsComplete
<1>1. Init => ProbeTypeOK /\ ReportInv
  BY InitProbeTyped, InitReport
<1>2. ProbeTypeOK /\ ReportInv /\ [Next]_vars => (ProbeTypeOK /\ ReportInv)'
  BY StepProbeTyped, StepReport
<1>3. QED BY <1>1, <1>2, ReportInvSuffices, PTL DEF Spec
=============================================================================
