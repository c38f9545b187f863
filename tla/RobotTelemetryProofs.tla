------------------------ MODULE RobotTelemetryProofs ------------------------
(***************************************************************************)
(* What RobotTelemetry answers was told by the robot, for every set of     *)
(* levels, every threshold and any number of events between two reads.     *)
(***************************************************************************)
EXTENDS RobotTelemetry, TLAPS

-----------------------------------------------------------------------------
(* The inductive invariant.                                                *)

\* What the handler holds is what the last event left, but for its level.
Stored ==
    /\ state = MapBatteryStatus(last.status)
    /\ updating = None => level = last.level
    /\ updating # None => level # None
    /\ last.level = None => last.status = "other"
    /\ engaged = lastStop

Newest == batteryEvents[Len(batteryEvents)]
EventWith(status) == \E i \in DOMAIN batteryEvents : batteryEvents[i].status # status
Released == AutoDisable \/ \E e \in stopEvents : e # TRUE

\* During a call, its history explains what the handlers hold.
Told ==
    asked # "idle" =>
        /\ batteryEvents # <<>>
        /\ Newest = IF updating = None THEN last ELSE [level |-> level, status |-> updating]
        /\ \E i \in DOMAIN batteryEvents : state = MapBatteryStatus(batteryEvents[i].status)
        /\ \A i \in DOMAIN batteryEvents :
               batteryEvents[i].level = None => batteryEvents[i].status = "other"
        /\ engaged \in stopEvents

Homing == {"home state", "home level", "home charging", "home full"}

\* What a call has learned from the reads it is past.
Learned ==
    /\ answer # None <=> asked = "answered"
    /\ asked \in {"home charging", "home full"} => level # None
    /\ asked = "home full" => EventWith("BS_CHARGING")
    /\ asked \in {"payload state", "payload return"} =>
           \E i \in DOMAIN batteryEvents : batteryEvents[i].level = payload.level
    /\ asked \in Homing => Released

\* What its answer rests on.
Justified ==
    /\ DockedIsHome
    /\ AnswersAreCurrent
    /\ answer \in {"Home", "Available"} => Released

TelemetryInv == TypeOK /\ Stored /\ Told /\ Learned /\ Justified

-----------------------------------------------------------------------------
LEMMA TelemetryInit == Init => TelemetryInv
<1> SUFFICES ASSUME Init PROVE TelemetryInv
  OBVIOUS
<1> USE NoneAssumption, SettingsAssumption DEF Init
<1>1. TypeOK
  BY DEF TypeOK, BatteryEvents, NoEvent, NoPayload, BatteryStatus, BatteryState,
         StopEvents, Streams
<1>2. Stored /\ Told
  BY DEF Stored, Told, NoEvent, MapBatteryStatus
<1>3. Learned /\ Justified
  BY DEF Learned, Justified, Homing, Result, DockedIsHome, AnswersAreCurrent
<1>4. QED
  BY <1>1, <1>2, <1>3 DEF TelemetryInv

\* A status that is taken over, and the ones that are not.
LEMMA Mapping ==
    ASSUME NEW status \in BatteryStatus
    PROVE  /\ MapBatteryStatus(status) \in BatteryState \union {None}
           /\ MapBatteryStatus(status) = "Charging" <=> status = "BS_CHARGING"
           /\ MapBatteryStatus(status) = None <=> status = "other"
BY NoneAssumption DEF MapBatteryStatus, BatteryStatus, BatteryState

\* An answer that was justified stays so when the histories grow.
LEMMA JustifiedGrows ==
    ASSUME Justified, answer' = answer, payload' = payload,
           DOMAIN batteryEvents \subseteq DOMAIN batteryEvents',
           \A i \in DOMAIN batteryEvents : batteryEvents'[i] = batteryEvents[i],
           stopEvents \subseteq stopEvents'
    PROVE  Justified'
<1>1. DockedIsHome'
  BY DEF Justified, DockedIsHome, SaysHome, Rising
<1>2. AnswersAreCurrent'
  BY DEF Justified, AnswersAreCurrent, SaysHome
<1>3. (answer \in {"Home", "Available"} => Released)'
  BY DEF Justified, Released
<1>4. QED
  BY <1>1, <1>2, <1>3 DEF Justified

\* A step that changes neither what the handlers hold nor the call.
LEMMA Elsewhere ==
    ASSUME TelemetryInv, TypeOK',
           UNCHANGED <<level, state, updating, engaged, readerVars, history>>
    PROVE  TelemetryInv'
<1> USE DEF readerVars, history
<1>1. Stored' /\ Told'
  BY DEF TelemetryInv, Stored, Told, Newest
<1>2. Learned'
  BY DEF TelemetryInv, Learned, EventWith, Released
<1>3. Justified'
  BY JustifiedGrows DEF TelemetryInv
<1>4. QED
  BY <1>1, <1>2, <1>3 DEF TelemetryInv

LEMMA RobotAndStreams ==
    ASSUME TelemetryInv,
           \/ RobotChanges
           \/ \E s \in Streams : StreamBreaks(s) \/ Reconnects(s)
    PROVE  TelemetryInv'
<1>1. CASE RobotChanges
  <2>1. changes' \in 0..MaxChanges
    <3>1. changes \in 0..MaxChanges /\ changes < MaxChanges /\ changes' = changes + 1
      BY <1>1 DEF TelemetryInv, TypeOK, RobotChanges
    <3>2. QED
      BY <3>1, SettingsAssumption
  <2>2. battery' \in BatteryEvents /\ stop' \in StopEvents
    BY <1>1 DEF TelemetryInv, TypeOK, RobotChanges
  <2>3. UNCHANGED <<connected, level, state, updating, engaged, readerVars, history>>
    BY <1>1 DEF RobotChanges
  <2>4. TypeOK'
    BY <2>1, <2>2, <2>3 DEF TelemetryInv, TypeOK, readerVars, history
  <2>5. QED
    BY <2>3, <2>4, Elsewhere
<1>2. ASSUME NEW s \in Streams, StreamBreaks(s) \/ Reconnects(s) PROVE TelemetryInv'
  <2>1. TypeOK'
    BY <1>2 DEF TelemetryInv, TypeOK, StreamBreaks, Reconnects, robotVars, readerVars,
                history
  <2>2. QED
    BY <1>2, <2>1, Elsewhere DEF StreamBreaks, Reconnects
<1>3. QED
  BY <1>1, <1>2

-----------------------------------------------------------------------------
(* The callbacks.                                                          *)

LEMMA SetBatteryLevelInv ==
    ASSUME TelemetryInv, SetBatteryLevel
    PROVE  TelemetryInv'
<1> USE DEF SetBatteryLevel, readerVars, robotVars
<1>1. /\ battery \in BatteryEvents /\ updating = None /\ battery.level # None
      /\ level' = battery.level /\ updating' = battery.status /\ updating' # None
      /\ battery = [level |-> level', status |-> updating']
  BY NoneAssumption DEF TelemetryInv, TypeOK, BatteryEvents
<1>2. CASE asked = "idle"
  <2>1. TypeOK'
    BY <1>1, <1>2 DEF TelemetryInv, TypeOK, Seen, BatteryEvents
  <2>2. Stored' /\ Told'
    BY <1>1, <1>2 DEF TelemetryInv, Stored, Told
  <2>3. Learned' /\ Justified'
    BY <1>1, <1>2, JustifiedGrows DEF TelemetryInv, Learned, Homing, Seen
  <2>4. QED
    BY <2>1, <2>2, <2>3 DEF TelemetryInv
<1>3. CASE asked # "idle"
  <2>1. batteryEvents \in Seq(BatteryEvents) /\ batteryEvents # <<>>
    BY <1>3 DEF TelemetryInv, TypeOK, Told
  <2>2. /\ batteryEvents' \in Seq(BatteryEvents) /\ batteryEvents' # <<>>
        /\ Newest' = battery
        /\ DOMAIN batteryEvents \subseteq DOMAIN batteryEvents'
        /\ \A i \in DOMAIN batteryEvents : batteryEvents'[i] = batteryEvents[i]
        /\ \A i \in DOMAIN batteryEvents' :
              i \in DOMAIN batteryEvents \/ batteryEvents'[i] = battery
    <3>1. CASE batteryEvents' = batteryEvents /\ Newest = battery
      BY <2>1, <3>1 DEF Newest
    <3>2. CASE batteryEvents' = Append(batteryEvents, battery)
      <4>1. battery \in BatteryEvents
        BY <1>1
      <4>2. batteryEvents' \in Seq(BatteryEvents) /\ batteryEvents' # <<>>
        BY <2>1, <3>2, <4>1
      <4>3. Len(batteryEvents') = Len(batteryEvents) + 1
        BY <2>1, <3>2, <4>1
      <4>4. Newest' = battery
        BY <2>1, <3>2, <4>1, <4>3 DEF Newest
      <4>5. /\ DOMAIN batteryEvents \subseteq DOMAIN batteryEvents'
            /\ \A i \in DOMAIN batteryEvents' :
                  i \in DOMAIN batteryEvents \/ i = Len(batteryEvents')
        BY <2>1, <4>2, <4>3
      <4>6. \A i \in DOMAIN batteryEvents : batteryEvents'[i] = batteryEvents[i]
        BY <2>1, <3>2, <4>1
      <4>7. QED
        BY <4>2, <4>4, <4>5, <4>6 DEF Newest
    <3>3. QED
      BY <1>3, <2>1, <3>1, <3>2 DEF Seen, Newest
  <2>3. TypeOK'
    BY <1>1, <2>2 DEF TelemetryInv, TypeOK, BatteryEvents
  <2>4. Stored'
    BY <1>1 DEF TelemetryInv, Stored
  <2>5. Told'
    BY <1>1, <2>2 DEF TelemetryInv, Told
  <2>6. Learned'
    BY <1>1, <2>2 DEF TelemetryInv, Learned, EventWith, Released
  <2>7. Justified'
    BY <2>2, JustifiedGrows DEF TelemetryInv
  <2>8. QED
    BY <2>3, <2>4, <2>5, <2>6, <2>7 DEF TelemetryInv
<1>4. QED
  BY <1>2, <1>3

LEMMA SetBatteryStateInv ==
    ASSUME TelemetryInv, SetBatteryState
    PROVE  TelemetryInv'
<1> USE DEF SetBatteryState, readerVars, robotVars
<1>1. /\ updating \in BatteryStatus /\ level \in Levels /\ updating' = None
      /\ last' = [level |-> level, status |-> updating]
      /\ state' = MapBatteryStatus(updating)
  BY DEF TelemetryInv, TypeOK, Stored
<1>2. TypeOK'
  <2>1. last' \in BatteryEvents
    BY <1>1 DEF BatteryEvents
  <2>2. state' \in BatteryState \union {None}
    BY <1>1, Mapping
  <2>3. QED
    BY <1>1, <2>1, <2>2 DEF TelemetryInv, TypeOK
<1>3. Stored'
  BY <1>1, NoneAssumption DEF TelemetryInv, Stored
<1>4. Told'
  <2> SUFFICES ASSUME asked # "idle" PROVE Told'
    BY DEF Told
  <2>1. batteryEvents \in Seq(BatteryEvents) /\ batteryEvents # <<>>
    BY DEF TelemetryInv, TypeOK, Told
  <2>2. Newest = last' /\ Len(batteryEvents) \in DOMAIN batteryEvents
    BY <1>1, <2>1, NoneAssumption DEF TelemetryInv, Told
  <2>3. QED
    BY <1>1, <2>2 DEF TelemetryInv, Told, Newest
<1>5. Learned' /\ Justified'
  BY JustifiedGrows DEF TelemetryInv, Learned, EventWith, Released
<1>6. QED
  BY <1>2, <1>3, <1>4, <1>5 DEF TelemetryInv

LEMMA ControlStatusInv ==
    ASSUME TelemetryInv, ControlStatus
    PROVE  TelemetryInv'
<1>1. /\ UNCHANGED <<battery, stop, changes, level, state, updating, asked, answer,
                     payload, last, batteryEvents>>
      /\ stopEvents \subseteq stopEvents'
      /\ engaged' \in stopEvents' \/ UNCHANGED <<engaged, stopEvents>>
      /\ engaged = lastStop => engaged' = lastStop'
  BY DEF ControlStatus, ControlOnly, robotVars, readerVars
<1>2. TypeOK'
  BY <1>1 DEF TelemetryInv, TypeOK, ControlStatus, ControlOnly
<1>3. Stored' /\ Told'
  BY <1>1 DEF TelemetryInv, Stored, Told, Newest
<1>4. Learned'
  BY <1>1 DEF TelemetryInv, Learned, EventWith, Released
<1>5. Justified'
  BY <1>1, JustifiedGrows DEF TelemetryInv
<1>6. QED
  BY <1>2, <1>3, <1>4, <1>5 DEF TelemetryInv

-----------------------------------------------------------------------------
(* The reads.                                                              *)

LEMMA AskInv ==
    ASSUME TelemetryInv, NEW kind \in {"status", "payload"}, Ask(kind)
    PROVE  TelemetryInv'
<1>1. /\ asked = "idle" /\ asked' = kind /\ answer = None
      /\ UNCHANGED <<battery, stop, changes, connected, level, state, updating, engaged,
                     last, lastStop, answer, payload>>
      /\ stopEvents' = {engaged}
  BY DEF TelemetryInv, Stored, Learned, Ask, ReaderAt, robotVars
<1>2. /\ last \in BatteryEvents
      /\ updating # None => [level |-> level, status |-> updating] \in BatteryEvents
  BY DEF TelemetryInv, TypeOK, BatteryEvents
<1>3. /\ batteryEvents' \in Seq(BatteryEvents) /\ batteryEvents' # <<>>
      /\ 1 \in DOMAIN batteryEvents' /\ batteryEvents'[1] = last
      /\ Newest' = IF updating = None THEN last ELSE [level |-> level, status |-> updating]
      /\ \A i \in DOMAIN batteryEvents' :
            \/ batteryEvents'[i] = last
            \/ updating # None /\ batteryEvents'[i] = [level |-> level, status |-> updating]
  <2>1. CASE updating = None
    BY <1>2, <2>1 DEF Ask, Newest
  <2>2. CASE updating # None
    BY <1>2, <2>2 DEF Ask, Newest
  <2>3. QED
    BY <2>1, <2>2
<1>4. TypeOK'
  BY <1>1, <1>3 DEF TelemetryInv, TypeOK
<1>5. Stored' /\ Told'
  BY <1>1, <1>3 DEF TelemetryInv, Stored, Told
<1>6. Learned' /\ Justified'
  BY <1>1, NoneAssumption
  DEF TelemetryInv, Learned, Justified, Homing, Result, DockedIsHome, AnswersAreCurrent
<1>7. QED
  BY <1>4, <1>5, <1>6 DEF TelemetryInv

\* A read changes the call and nothing else.
LEMMA ReadInv ==
    ASSUME TelemetryInv, asked # "idle",
           UNCHANGED <<battery, stop, changes, connected, level, state, updating, engaged,
                       last, lastStop, batteryEvents, stopEvents>>,
           TypeOK', Learned', Justified'
    PROVE  TelemetryInv'
BY DEF TelemetryInv, Stored, Told, Newest

\* A read after which the call goes on.
LEMMA ReadGoesOn ==
    ASSUME TelemetryInv, NEW at, NEW to, ReaderAt(at), ReaderTo(to),
           at \notin {"idle", "answered"},
           to \in {"stop", "home state", "home level", "home charging", "home full",
                   "payload return"},
           Learned'
    PROVE  TelemetryInv'
<1> USE DEF ReaderAt, ReaderTo, robotVars
<1>1. TypeOK'
  BY DEF TelemetryInv, TypeOK
<1>2. Justified'
  BY JustifiedGrows DEF TelemetryInv
<1>3. QED
  BY <1>1, <1>2, ReadInv

\* A read that ends the call without a payload.
LEMMA ReadEnds ==
    ASSUME TelemetryInv, NEW at, NEW result \in Result \ {"payload"}, ReaderAt(at),
           Answers(result), at \notin {"idle", "answered"}, Justified'
    PROVE  TelemetryInv'
<1> USE DEF ReaderAt, Answers, robotVars
<1>1. TypeOK'
  BY DEF TelemetryInv, TypeOK
<1>2. Learned'
  BY NoneAssumption DEF Learned, Homing
<1>3. QED
  BY <1>1, <1>2, ReadInv

\* What a read of the handlers finds in the history of the call.
LEMMA HandlersTold ==
    ASSUME TelemetryInv, asked # "idle"
    PROVE  /\ batteryEvents \in Seq(BatteryEvents)
           /\ Len(batteryEvents) \in DOMAIN batteryEvents
           /\ batteryEvents[Len(batteryEvents)].level = level
           /\ \E i \in DOMAIN batteryEvents :
                 /\ batteryEvents[i] \in BatteryEvents
                 /\ state = MapBatteryStatus(batteryEvents[i].status)
<1>1. batteryEvents \in Seq(BatteryEvents) /\ batteryEvents # <<>>
  BY DEF TelemetryInv, TypeOK, Told
<1>2. Newest.level = level
  BY DEF TelemetryInv, Told, Stored
<1>3. QED
  BY <1>1, <1>2 DEF TelemetryInv, Told, Newest

LEMMA StatusReads ==
    ASSUME TelemetryInv, AskOnline \/ ReadStop
    PROVE  TelemetryInv'
<1>1. CASE AskOnline
  <2>1. CASE ReaderTo("stop")
    <3>1. Learned'
      BY <1>1, <2>1 DEF TelemetryInv, Learned, AskOnline, ReaderAt, ReaderTo, Homing
    <3>2. QED
      BY <1>1, <2>1, <3>1, ReadGoesOn DEF AskOnline
  <2>2. ASSUME NEW result \in {"Offline", "RobotCommunicationException"}, Answers(result)
        PROVE TelemetryInv'
    <3>1. Justified'
      BY <2>2 DEF Answers, Justified, DockedIsHome, AnswersAreCurrent
    <3>2. QED
      BY <1>1, <2>2, <3>1, ReadEnds DEF AskOnline, Result
  <2>3. QED
    BY <1>1, <2>1, <2>2 DEF AskOnline
<1>2. CASE ReadStop
  <2>1. CASE ~AutoDisable /\ engaged = TRUE
    <3>1. Answers("TeleOperation")
      BY <1>2, <2>1 DEF ReadStop
    <3>2. Justified'
      BY <3>1 DEF Answers, Justified, DockedIsHome, AnswersAreCurrent
    <3>3. QED
      BY <1>2, <3>1, <3>2, ReadEnds DEF ReadStop, Result
  <2>2. CASE AutoDisable \/ engaged # TRUE
    <3>1. ReaderAt("stop") /\ ReaderTo("home state")
      BY <1>2, <2>2 DEF ReadStop
    <3>2. Released
      BY <2>2, <3>1 DEF TelemetryInv, Told, ReaderAt, Released
    <3>3. Learned'
      BY <3>1, <3>2
      DEF TelemetryInv, Learned, ReaderAt, ReaderTo, Homing, Released
    <3>4. QED
      BY <3>1, <3>3, ReadGoesOn
  <2>3. QED
    BY <2>1, <2>2, SettingsAssumption
<1>3. QED
  BY <1>1, <1>2

\* robot_is_home says no only to what is not home, or was not for a moment.
LEMMA AvailableIsJustified ==
    ASSUME TelemetryInv, Answers("Available"), asked \in Homing,
           ~((\A i \in DOMAIN batteryEvents : SaysHome(batteryEvents[i])) /\ Rising)
    PROVE  Justified'
<1>1. Released
  BY DEF TelemetryInv, Learned
<1>2. QED
  BY <1>1 DEF Answers, Justified, DockedIsHome, AnswersAreCurrent, Released, Rising

LEMMA HomeIsJustified ==
    ASSUME TelemetryInv, Answers("Home"), asked \in Homing,
           \E i \in DOMAIN batteryEvents :
               /\ batteryEvents[i].level # None
               /\ SaysHome(batteryEvents[i]) \/ batteryEvents[i].level >= BatteryFull
    PROVE  Justified'
<1>1. Released
  BY DEF TelemetryInv, Learned
<1>2. QED
  BY <1>1 DEF Answers, Justified, DockedIsHome, AnswersAreCurrent, Released

LEMMA HomeReads ==
    ASSUME TelemetryInv, ReadHomeState \/ ReadHomeLevel \/ ReadCharging
    PROVE  TelemetryInv'
<1>1. asked \in Homing /\ asked # "idle" /\ "Home" \in Result /\ "Available" \in Result
  BY DEF ReadHomeState, ReadHomeLevel, ReadCharging, ReaderAt, Homing, Result
<1>2. PICK i \in DOMAIN batteryEvents :
          /\ batteryEvents[i] \in BatteryEvents
          /\ state = MapBatteryStatus(batteryEvents[i].status)
  BY <1>1, HandlersTold
<1>3. batteryEvents[i].status \in BatteryStatus
  BY <1>2 DEF BatteryEvents
<1>4. Released
  BY <1>1 DEF TelemetryInv, Learned
<1>5. CASE ReadHomeState
  <2>1. CASE state = None
    <3>1. ~SaysHome(batteryEvents[i])
      BY <1>2, <1>3, <2>1, Mapping DEF SaysHome
    <3>2. QED
      BY <1>1, <1>5, <2>1, <3>1, AvailableIsJustified, ReadEnds DEF ReadHomeState
  <2>2. CASE state # None
    <3>1. Learned'
      BY <1>4, <1>5, <2>2
      DEF TelemetryInv, Learned, ReadHomeState, ReaderAt, ReaderTo, Homing, Released
    <3>2. QED
      BY <1>5, <2>2, <3>1, ReadGoesOn DEF ReadHomeState
  <2>3. QED
    BY <2>1, <2>2
<1>6. CASE ReadHomeLevel
  <2>1. CASE level = None
    <3>1. ~SaysHome(batteryEvents[Len(batteryEvents)])
      BY <1>1, <2>1, HandlersTold DEF SaysHome
    <3>2. Len(batteryEvents) \in DOMAIN batteryEvents
      BY <1>1, HandlersTold
    <3>3. QED
      BY <1>1, <1>6, <2>1, <3>1, <3>2, AvailableIsJustified, ReadEnds DEF ReadHomeLevel
  <2>2. CASE level # None
    <3>1. Learned'
      BY <1>4, <1>6, <2>2
      DEF TelemetryInv, Learned, ReadHomeLevel, ReaderAt, ReaderTo, Homing, Released
    <3>2. QED
      BY <1>6, <2>2, <3>1, ReadGoesOn DEF ReadHomeLevel
  <2>3. QED
    BY <2>1, <2>2
<1>7. CASE ReadCharging
  <2>1. CASE state = "Charging"
    <3>1. batteryEvents[i].status = "BS_CHARGING"
      BY <1>2, <1>3, <2>1, Mapping
    <3>2. batteryEvents[i].level # None
      BY <1>1, <3>1 DEF TelemetryInv, Told
    <3>3. QED
      BY <1>1, <1>7, <2>1, <3>1, <3>2, HomeIsJustified, ReadEnds
      DEF ReadCharging, SaysHome
  <2>2. CASE state # "Charging"
    <3>1. EventWith("BS_CHARGING")
      BY <1>2, <1>3, <2>2, Mapping DEF EventWith
    <3>2. Learned'
      BY <1>4, <1>7, <2>2, <3>1
      DEF TelemetryInv, Learned, ReadCharging, ReaderAt, ReaderTo, Homing, Released,
          EventWith
    <3>3. QED
      BY <1>7, <2>2, <3>2, ReadGoesOn DEF ReadCharging
  <2>3. QED
    BY <2>1, <2>2
<1>8. QED
  BY <1>5, <1>6, <1>7

\* A robot that was found discharging is at home if its level has reached the
\* threshold; as levels rise, the one read now is at least the one it had then.
LEMMA ReadFullInv ==
    ASSUME TelemetryInv, ReadFull
    PROVE  TelemetryInv'
<1>1. /\ asked = "home full" /\ asked \in Homing /\ asked # "idle" /\ level # None
      /\ EventWith("BS_CHARGING")
  BY DEF TelemetryInv, Learned, ReadFull, ReaderAt, Homing
<1> DEFINE n == Len(batteryEvents)
<1>2. n \in DOMAIN batteryEvents /\ batteryEvents[n].level = level
  BY <1>1, HandlersTold
<1>3. CASE level >= BatteryFull
  BY <1>1, <1>2, <1>3, HomeIsJustified, ReadEnds DEF ReadFull, Result
<1>4. CASE ~(level >= BatteryFull)
  <2>1. PICK i \in DOMAIN batteryEvents : batteryEvents[i].status # "BS_CHARGING"
    BY <1>1 DEF EventWith
  <2>2. ASSUME \A j \in DOMAIN batteryEvents : SaysHome(batteryEvents[j]), Rising
        PROVE  FALSE
    <3>1. batteryEvents[i].level >= BatteryFull /\ batteryEvents[i].level # None
      <4>1. SaysHome(batteryEvents[i])
        BY <2>1, <2>2
      <4>2. QED
        BY <2>1, <4>1 DEF SaysHome
    <3>2. i \in 1..n /\ n \in Nat /\ batteryEvents[i] \in BatteryEvents
      <4>1. batteryEvents \in Seq(BatteryEvents)
        BY <1>1, HandlersTold
      <4>2. QED
        BY <2>1, <4>1
    <3>3. batteryEvents[i].level <= level
      BY <1>2, <2>2, <3>2 DEF Rising
    <3>4. batteryEvents[i].level \in Nat /\ level \in Nat /\ BatteryFull \in Nat
      BY <1>1, <3>1, <3>2, LevelsAssumption DEF BatteryEvents, TelemetryInv, TypeOK
    <3>5. QED
      BY <1>4, <3>1, <3>3, <3>4
  <2>3. Answers("Available")
    BY <1>4 DEF ReadFull
  <2>4. QED
    BY <1>1, <2>2, <2>3, AvailableIsJustified, ReadEnds DEF ReadFull, Result
<1>5. QED
  BY <1>3, <1>4

LEMMA PayloadReads ==
    ASSUME TelemetryInv, ReadLevel \/ CheckState \/ ReadState
    PROVE  TelemetryInv'
<1>1. asked \in {"payload", "payload state", "payload return"} /\ asked # "idle"
  BY DEF ReadLevel, CheckState, ReadState, ReaderAt
<1>2. /\ Len(batteryEvents) \in DOMAIN batteryEvents
      /\ batteryEvents[Len(batteryEvents)].level = level
  BY <1>1, HandlersTold
<1>3. ASSUME NEW at, ReaderAt(at), at \notin {"idle", "answered"},
             Answers("RobotTelemetryNoUpdateException")
      PROVE  TelemetryInv'
  <2>1. Justified'
    BY <1>3 DEF Answers, Justified, DockedIsHome, AnswersAreCurrent
  <2>2. QED
    BY <1>3, <2>1, ReadEnds DEF Result
<1>4. CASE ReadLevel
  <2>1. CASE level = None
    BY <1>3, <1>4, <2>1 DEF ReadLevel
  <2>2. CASE level # None
    <3>1. /\ asked = "payload" /\ asked' = "payload state" /\ payload'.level = level
          /\ payload' \in [level : Levels \union {None}, state : BatteryState \union {None}]
          /\ UNCHANGED <<battery, stop, changes, connected, level, state, updating,
                         engaged, last, lastStop, batteryEvents, stopEvents, answer>>
      BY <1>4, <2>2 DEF ReadLevel, ReaderAt, robotVars, TelemetryInv, TypeOK
    <3>2. TypeOK'
      BY <3>1 DEF TelemetryInv, TypeOK
    <3>3. Learned'
      BY <1>2, <3>1 DEF TelemetryInv, Learned, Homing
    <3>4. Justified'
      BY <3>1, NoneAssumption
      DEF TelemetryInv, Learned, Justified, DockedIsHome, AnswersAreCurrent, Result
    <3>5. QED
      BY <1>1, <3>1, <3>2, <3>3, <3>4, ReadInv
  <2>3. QED
    BY <2>1, <2>2
<1>5. CASE CheckState
  <2>1. CASE state = None
    BY <1>3, <1>5, <2>1 DEF CheckState
  <2>2. CASE state # None
    <3>1. Learned'
      BY <1>5, <2>2 DEF TelemetryInv, Learned, CheckState, ReaderAt, ReaderTo, Homing
    <3>2. QED
      BY <1>5, <2>2, <3>1, ReadGoesOn DEF CheckState
  <2>3. QED
    BY <2>1, <2>2
<1>6. CASE ReadState /\ answer' = "payload"
  <2>1. /\ asked = "payload return" /\ asked' = "answered" /\ answer' = "payload"
        /\ payload' \in [level : Levels \union {None}, state : BatteryState \union {None}]
        /\ payload'.level = payload.level /\ payload'.state = state
        /\ UNCHANGED <<battery, stop, changes, connected, level, state, updating,
                       engaged, last, lastStop, batteryEvents, stopEvents>>
    BY <1>6 DEF ReadState, ReaderAt, Answers, robotVars, TelemetryInv, TypeOK
  <2>2. TypeOK'
    BY <2>1 DEF TelemetryInv, TypeOK, Result
  <2>3. Learned'
    BY <2>1, NoneAssumption DEF Learned, Homing, Result
  <2>4. \E i, j \in DOMAIN batteryEvents :
            /\ batteryEvents[i].level = payload.level
            /\ MapBatteryStatus(batteryEvents[j].status) = state
    BY <1>1, <2>1 DEF TelemetryInv, Learned, Told
  <2>5. Justified'
    BY <2>1, <2>4 DEF Justified, DockedIsHome, AnswersAreCurrent
  <2>6. QED
    BY <1>1, <2>1, <2>2, <2>3, <2>5, ReadInv
<1>7. CASE ReadState /\ answer' # "payload"
  <2>1. ReaderAt("payload return") /\ Answers("ValidationError")
    BY <1>7 DEF ReadState
  <2>2. Justified'
    BY <2>1 DEF Answers, Justified, DockedIsHome, AnswersAreCurrent
  <2>3. QED
    BY <2>1, <2>2, ReadEnds DEF Result
<1>8. QED
  BY <1>4, <1>5, <1>6, <1>7

LEMMA FinishInv ==
    ASSUME TelemetryInv, Finish
    PROVE  TelemetryInv'
<1> USE DEF Finish, ReaderAt, robotVars
<1>1. TypeOK'
  BY DEF TelemetryInv, TypeOK, NoPayload
<1>2. Stored' /\ Told'
  BY DEF TelemetryInv, Stored, Told
<1>3. Learned' /\ Justified'
  BY NoneAssumption
  DEF Learned, Justified, Homing, Result, DockedIsHome, AnswersAreCurrent
<1>4. QED
  BY <1>1, <1>2, <1>3 DEF TelemetryInv

LEMMA TelemetryNext == TelemetryInv /\ [Next]_vars => TelemetryInv'
<1> SUFFICES ASSUME TelemetryInv, [Next]_vars PROVE TelemetryInv'
  OBVIOUS
<1>1. CASE RobotChanges \/ \E s \in Streams : StreamBreaks(s) \/ Reconnects(s)
  BY <1>1, RobotAndStreams
<1>2. CASE SetBatteryLevel \/ SetBatteryState \/ ControlStatus
  BY <1>2, SetBatteryLevelInv, SetBatteryStateInv, ControlStatusInv
<1>3. CASE Reader
  BY <1>3, AskInv, StatusReads, HomeReads, ReadFullInv, PayloadReads, FinishInv DEF Reader
<1>4. CASE UNCHANGED vars
  <2>1. TypeOK'
    BY <1>4 DEF TelemetryInv, TypeOK, vars, robotVars, readerVars, history
  <2>2. QED
    BY <1>4, <2>1, Elsewhere DEF vars
<1>5. QED
  BY <1>1, <1>2, <1>3, <1>4 DEF Next

LEMMA TelemetryHolds == Spec => []TelemetryInv
BY TelemetryInit, TelemetryNext, PTL DEF Spec

-----------------------------------------------------------------------------
\* Every variable of the handlers and of a call keeps its type.
THEOREM TelemetryTypes == Spec => []TypeOK
<1>1. TelemetryInv => TypeOK
  BY DEF TelemetryInv
<1>2. QED
  BY <1>1, TelemetryHolds, PTL

\* get_robot_status never reports a robot that charges, or is full, as away while
\* its level rises, although level and state are stored and read one by one.
THEOREM DockedRobotsAreHome == Spec => []DockedIsHome
<1>1. TelemetryInv => DockedIsHome
  BY DEF TelemetryInv, Justified
<1>2. QED
  BY <1>1, TelemetryHolds, PTL

\* Neither get_robot_status nor the battery telemetry answers with what an event
\* left that was replaced before the call.
THEOREM AnswersWereTold == Spec => []AnswersAreCurrent
<1>1. TelemetryInv => AnswersAreCurrent
  BY DEF TelemetryInv, Justified
<1>2. QED
  BY <1>1, TelemetryHolds, PTL

\* A protective stop that is engaged all through a call is in its answer, whatever
\* events update_control_status_callback could not take.
THEOREM EngagedStopIsReported == Spec => []EngagedIsReported
<1>1. TelemetryInv => EngagedIsReported
  BY DEF TelemetryInv, Justified, Released, EngagedIsReported
<1>2. QED
  BY <1>1, TelemetryHolds, PTL
=============================================================================
