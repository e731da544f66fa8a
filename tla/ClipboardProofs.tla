--------------------------- MODULE ClipboardProofs ---------------------------
(***************************************************************************)
(* Proofs about Clipboard, for any devices, values and conversions.        *)
(***************************************************************************)
EXTENDS Clipboard, TLAPS

\* What a device's two tasks hold, and how the flag and the overlap follow them:
\* a round that the handler works beside has been marked.
TasksOK(d) ==
    /\ handler[d] # "idle" => applying[d] /\ incoming[d] \in Payloads
    /\ handler[d] = "idle" => ~applying[d]
    /\ watcher[d] \in {"building", "comparing", "emitting", "publishing"} =>
          content[d] \in Values
    /\ InRound(d) /\ handler[d] # "idle" => overlap[d]
    /\ overlap[d] => InRound(d)

\* A value that a message put on the clipboard: unless forgotten, last_emitted
\* is or will be that of the message, or that of the form in which it is read.
OriginOK(d) ==
    origin[d] # None =>
        /\ clip[d] \in Values
        /\ ~forgotten[d] =>
              IF handler[d] = "written"
                THEN incoming[d] = origin[d]
                ELSE lastEmitted[d] \in {origin[d], Payload(ReadBack(d, clip[d]))}

\* In a round that met no message: what was read is still there unless a user
\* copied since, and last_emitted is as it was when the value was read.
RoundOK(d) ==
    ~overlap[d] /\ watcher[d] \in {"building", "comparing", "emitting"} =>
        /\ origin[d] # None => content[d] = ReadBack(d, clip[d])
        /\ readOrigin[d] # None /\ ~forgotten[d] =>
              lastEmitted[d] \in {readOrigin[d], Payload(content[d])}
        /\ watcher[d] = "emitting" => lastEmitted[d] # Payload(content[d])

\* NoEcho and what it rests on.
EchoInv ==
    /\ TypeOK
    /\ \A d \in Devices : TasksOK(d) /\ OriginOK(d) /\ RoundOK(d)

\* The last copy, on the device where it was made, before it is emitted.
Unsent(d) ==
    /\ handler[d] = "idle"
    /\ clip[d] # None
    /\ ReadBack(d, clip[d]) = latest
    /\ lastEmitted[d] # Payload(latest)

\* The watcher has seen what is on the clipboard.
Settled(d) ==
    handler[d] = "idle" /\ clip[d] # None =>
        lastEmitted[d] = Payload(ReadBack(d, clip[d]))

Arrived(d) == clip[d] # None /\ ReadBack(d, clip[d]) = latest

\* The last copy is on its way to d.
Coming(d) ==
    \/ Payload(latest) \in net[d]
    \/ handler[d] # "idle"
    \/ \E o \in Devices : watcher[o] = "publishing" /\ d \in todo[o]

\* A round that met no message and has something to emit is that of the last
\* copy.
RoundLatest(d) ==
    ~overlap[d] =>
        /\ watcher[d] \in {"building", "comparing"} =>
              lastEmitted[d] = Payload(content[d]) \/ (Unsent(d) /\ content[d] = latest)
        /\ watcher[d] = "emitting" => Unsent(d) /\ content[d] = latest

\* Only the last copy is under way.
OnlyLatest(d) ==
    /\ net[d] \subseteq {Payload(latest)}
    /\ handler[d] # "idle" => incoming[d] = Payload(latest)
    /\ handler[d] = "written" => Arrived(d)
    /\ watcher[d] = "publishing" => content[d] = latest
    /\ Settled(d) \/ Unsent(d)
    /\ RoundLatest(d)

\* Before the copy is emitted nothing is under way, and no other device has
\* anything to emit.
Before(o) ==
    /\ Unsent(o)
    /\ \A d \in Devices :
          /\ net[d] = {}
          /\ handler[d] = "idle"
          /\ watcher[d] # "publishing"
          /\ d # o => ~Unsent(d)

\* Afterwards every device has the copy or will be brought it.
After == \A d \in Devices : ~Unsent(d) /\ (Arrived(d) \/ Coming(d))

\* Where an undisturbed copy is.
CopyOK ==
    ~disturbed /\ latest # None =>
        /\ \A d \in Devices : OnlyLatest(d)
        /\ (\E o \in Devices : Before(o)) \/ After

ClipboardInv == EchoInv /\ CopyOK

\* What a read gives is a value, and a payload tells its value.
LEMMA ValueFacts ==
    /\ \A d \in Devices, v \in Values : ReadBack(d, v) \in Values
    /\ \A v \in Values : Payload(v) \in Payloads /\ Payload(v)[2] = v
    /\ \A v, w : Payload(v) = Payload(w) => v = w
    /\ \A p \in Payloads : p[2] \in Values
    /\ None \notin Payloads /\ None \notin Values
  BY ClipboardAssumption DEF ReadBack, Payload, Payloads

\* The end of a round.
LEMMA EndRoundFacts ==
    ASSUME TypeOK, NEW d \in Devices, NEW next \in {"idle", "off"}, EndRound(d, next)
    PROVE  /\ watcher' \in [Devices -> {"off", "idle", "reading", "building",
                                         "comparing", "emitting", "publishing"}]
           /\ content' \in [Devices -> Values \cup {None}]
           /\ todo' \in [Devices -> SUBSET Devices]
           /\ readOrigin' \in [Devices -> Payloads \cup {None}]
           /\ overlap' \in [Devices -> BOOLEAN]
           /\ watcher'[d] = next /\ overlap'[d] = FALSE /\ readOrigin'[d] = None
           /\ todo'[d] = {}
           /\ \A x \in Devices \ {d} :
                 /\ watcher'[x] = watcher[x]
                 /\ content'[x] = content[x]
                 /\ todo'[x] = todo[x]
                 /\ readOrigin'[x] = readOrigin[x]
                 /\ overlap'[x] = overlap[x]
  BY DEF TypeOK, EndRound

\* The next recipient, or the end of the round after the last one.
LEMMA TriedFacts ==
    ASSUME TypeOK, NEW d \in Devices, NEW p \in Devices, p \in todo[d],
           watcher[d] = "publishing", Tried(d, p)
    PROVE  /\ watcher' \in [Devices -> {"off", "idle", "reading", "building",
                                         "comparing", "emitting", "publishing"}]
           /\ content' \in [Devices -> Values \cup {None}]
           /\ todo' \in [Devices -> SUBSET Devices]
           /\ readOrigin' \in [Devices -> Payloads \cup {None}]
           /\ overlap' \in [Devices -> BOOLEAN]
           /\ watcher'[d] \in {"idle", "publishing"}
           /\ watcher'[d] = "publishing" =>
                 content'[d] = content[d] /\ todo'[d] = todo[d] \ {p}
           /\ watcher'[d] = "idle" => todo[d] = {p}
           /\ overlap'[d] = FALSE \/ overlap'[d] = overlap[d]
           /\ \A x \in Devices \ {d} :
                 /\ watcher'[x] = watcher[x]
                 /\ content'[x] = content[x]
                 /\ todo'[x] = todo[x]
                 /\ readOrigin'[x] = readOrigin[x]
                 /\ overlap'[x] = overlap[x]
<1>1. CASE todo[d] = {p}
  <2>1. EndRound(d, "idle")
    BY <1>1 DEF Tried
  <2> QED
    BY <1>1, <2>1, EndRoundFacts
<1>2. CASE todo[d] # {p}
  BY <1>2 DEF TypeOK, Tried
<1> QED
  BY <1>1, <1>2

\* The invariant holds initially.
LEMMA EchoInit == Init => EchoInv
<1> SUFFICES ASSUME Init PROVE EchoInv
  OBVIOUS
<1> USE ClipboardAssumption DEF Init
<1>1. TypeOK
  <2>1. copies \in 0 .. MaxCopies /\ faults \in 0 .. MaxFaults
    OBVIOUS
  <2>2. net \in [Devices -> SUBSET Payloads] /\ todo \in [Devices -> SUBSET Devices]
    OBVIOUS
  <2>3. disturbed \in BOOLEAN
    OBVIOUS
  <2> QED
    BY <2>1, <2>2, <2>3 DEF TypeOK
<1>2. ASSUME NEW d \in Devices PROVE TasksOK(d) /\ OriginOK(d) /\ RoundOK(d)
  BY DEF TasksOK, OriginOK, RoundOK, InRound
<1> QED
  BY <1>1, <1>2 DEF EchoInv

\* Every step keeps the part that NoEcho rests on.
LEMMA EchoInductive == EchoInv /\ [Next]_vars => EchoInv'
<1> SUFFICES ASSUME EchoInv, [Next]_vars PROVE EchoInv'
  OBVIOUS
<1> USE ClipboardAssumption, ValueFacts
    DEF EchoInv, watcherVars, handlerVars, historyVars
<1>1. CASE UNCHANGED vars
  BY <1>1 DEF vars, TypeOK, TasksOK, OriginOK, RoundOK, InRound
<1>2. ASSUME NEW d \in Devices, NEW v \in Copied, UserCopies(d, v) PROVE EchoInv'
  <2> USE <1>2 DEF UserCopies
  <2>1. TypeOK'
    BY DEF TypeOK
  <2>2. ASSUME NEW x \in Devices PROVE TasksOK(x)'
    BY DEF TypeOK, TasksOK, InRound
  <2>3. ASSUME NEW x \in Devices PROVE OriginOK(x)'
    BY DEF TypeOK, TasksOK, OriginOK
  <2>4. ASSUME NEW x \in Devices PROVE RoundOK(x)'
    BY DEF TypeOK, TasksOK, OriginOK, RoundOK, InRound
  <2> QED
    BY <2>1, <2>2, <2>3, <2>4
<1>3. ASSUME NEW d \in Devices, NEW v \in OldTexts, LegacyText(d, v) PROVE EchoInv'
  <2> USE <1>3 DEF LegacyText
  <2>1. TypeOK'
    <3>1. <<1, v>> \in Payloads
      BY DEF Payloads
    <3>2. net' \in [Devices -> SUBSET Payloads]
      BY <3>1 DEF TypeOK
    <3>3. copies' \in 0 .. MaxCopies
      BY DEF TypeOK
    <3> QED
      BY <3>2, <3>3 DEF TypeOK
  <2>2. ASSUME NEW x \in Devices PROVE TasksOK(x)'
    BY DEF TypeOK, TasksOK, InRound
  <2>3. ASSUME NEW x \in Devices PROVE OriginOK(x)'
    BY DEF TypeOK, TasksOK, OriginOK
  <2>4. ASSUME NEW x \in Devices PROVE RoundOK(x)'
    BY DEF TypeOK, TasksOK, OriginOK, RoundOK, InRound
  <2> QED
    BY <2>1, <2>2, <2>3, <2>4
<1>4. ASSUME NEW d \in Devices, Tick(d) PROVE EchoInv'
  <2> USE <1>4 DEF Tick, MayRead
  <2>1. TypeOK'
    BY DEF TypeOK
  <2>2. ASSUME NEW x \in Devices PROVE TasksOK(x)'
    BY DEF TypeOK, TasksOK, InRound
  <2>3. ASSUME NEW x \in Devices PROVE OriginOK(x)'
    BY DEF TypeOK, TasksOK, OriginOK
  <2>4. ASSUME NEW x \in Devices PROVE RoundOK(x)'
    BY DEF TypeOK, TasksOK, OriginOK, RoundOK, InRound
  <2> QED
    BY <2>1, <2>2, <2>3, <2>4
<1>5. ASSUME NEW d \in Devices, Read(d) PROVE EchoInv'
  <2> USE <1>5 DEF Read
  <2>1. TypeOK'
    <3>1. CASE clip[d] = None
      BY <3>1, EndRoundFacts DEF TypeOK
    <3>2. CASE clip[d] # None
      <4> DEFINE v == ReadBack(d, clip[d])
      <4>1. v \in Values /\ content' = [content EXCEPT ![d] = v]
        BY <3>2 DEF TypeOK
      <4>2. watcher' = [watcher EXCEPT ![d] =
                          IF v \in Blob THEN "building" ELSE "comparing"]
        BY <3>2
      <4> HIDE DEF v
      <4>3. readOrigin' = [readOrigin EXCEPT ![d] = origin[d]]
            /\ UNCHANGED <<todo, overlap>>
        BY <3>2
      <4> QED
        BY <4>1, <4>2, <4>3 DEF TypeOK
    <3> QED
      BY <3>1, <3>2
  <2>2. ASSUME NEW x \in Devices PROVE TasksOK(x)'
    <3>1. CASE clip[d] = None
      <4>1. EndRound(d, "idle")
        BY <3>1
      <4>2. CASE x = d
        BY <4>1, <4>2, EndRoundFacts DEF TasksOK, InRound
      <4>3. CASE x # d
        <5>1. \A y \in Devices \ {d} :
                 /\ watcher'[y] = watcher[y]
                 /\ content'[y] = content[y]
                 /\ todo'[y] = todo[y]
                 /\ readOrigin'[y] = readOrigin[y]
                 /\ overlap'[y] = overlap[y]
          BY <4>1, EndRoundFacts
        <5>2. x \in Devices \ {d}
          BY <4>3
        <5>3. /\ watcher'[x] = watcher[x] /\ content'[x] = content[x]
              /\ readOrigin'[x] = readOrigin[x] /\ overlap'[x] = overlap[x]
          BY <5>1, <5>2
        <5>4. UNCHANGED <<handler, incoming, applying, lastEmitted>>
          OBVIOUS
        <5> QED
          BY <5>3, <5>4 DEF TasksOK, InRound
      <4> QED
        BY <4>2, <4>3
    <3>2. CASE ~(clip[d] = None)
      BY <3>2 DEF TypeOK, TasksOK, InRound
    <3> QED
      BY <3>1, <3>2
  <2>3. ASSUME NEW x \in Devices PROVE OriginOK(x)'
    <3>1. CASE clip[d] = None
      BY <3>1, EndRoundFacts DEF TypeOK, TasksOK, OriginOK
    <3>2. CASE ~(clip[d] = None)
      BY <3>2 DEF TypeOK, TasksOK, OriginOK
    <3> QED
      BY <3>1, <3>2
  <2>4. ASSUME NEW x \in Devices PROVE RoundOK(x)'
    <3>1. CASE clip[d] = None
      <4>1. EndRound(d, "idle")
        BY <3>1
      <4>2. CASE x = d
        BY <4>1, <4>2, EndRoundFacts DEF TasksOK, RoundOK, InRound
      <4>3. CASE x # d
        <5>1. \A y \in Devices \ {d} :
                 /\ watcher'[y] = watcher[y]
                 /\ content'[y] = content[y]
                 /\ todo'[y] = todo[y]
                 /\ readOrigin'[y] = readOrigin[y]
                 /\ overlap'[y] = overlap[y]
          BY <4>1, EndRoundFacts
        <5>2. x \in Devices \ {d}
          BY <4>3
        <5>3. /\ watcher'[x] = watcher[x] /\ content'[x] = content[x]
              /\ readOrigin'[x] = readOrigin[x] /\ overlap'[x] = overlap[x]
          BY <5>1, <5>2
        <5>4. UNCHANGED <<handler, incoming, applying, lastEmitted>>
          OBVIOUS
        <5> QED
          BY <5>3, <5>4 DEF TasksOK, RoundOK, InRound
      <4> QED
        BY <4>2, <4>3
    <3>2. CASE ~(clip[d] = None)
      BY <3>2 DEF TypeOK, TasksOK, OriginOK, RoundOK, InRound
    <3> QED
      BY <3>1, <3>2
  <2> QED
    BY <2>1, <2>2, <2>3, <2>4
<1>6. ASSUME NEW d \in Devices, ReadFails(d) PROVE EchoInv'
  <2> USE <1>6 DEF ReadFails, EndRound
  <2>1. TypeOK'
    BY DEF TypeOK
  <2>2. ASSUME NEW x \in Devices PROVE TasksOK(x)'
    BY DEF TypeOK, TasksOK, InRound
  <2>3. ASSUME NEW x \in Devices PROVE OriginOK(x)'
    BY DEF TypeOK, TasksOK, OriginOK
  <2>4. ASSUME NEW x \in Devices PROVE RoundOK(x)'
    BY DEF TypeOK, TasksOK, OriginOK, RoundOK, InRound
  <2> QED
    BY <2>1, <2>2, <2>3, <2>4
<1>7. ASSUME NEW d \in Devices, Build(d) PROVE EchoInv'
  <2> USE <1>7 DEF Build
  <2>1. TypeOK'
    BY DEF TypeOK
  <2>2. ASSUME NEW x \in Devices PROVE TasksOK(x)'
    BY DEF TypeOK, TasksOK, InRound
  <2>3. ASSUME NEW x \in Devices PROVE OriginOK(x)'
    BY DEF TypeOK, TasksOK, OriginOK
  <2>4. ASSUME NEW x \in Devices PROVE RoundOK(x)'
    BY DEF TypeOK, TasksOK, OriginOK, RoundOK, InRound
  <2> QED
    BY <2>1, <2>2, <2>3, <2>4
<1>8. ASSUME NEW d \in Devices, BuildFails(d) PROVE EchoInv'
  <2> USE <1>8 DEF BuildFails, EndRound, Fault
  <2>1. TypeOK'
    BY DEF TypeOK
  <2>2. ASSUME NEW x \in Devices PROVE TasksOK(x)'
    BY DEF TypeOK, TasksOK, InRound
  <2>3. ASSUME NEW x \in Devices PROVE OriginOK(x)'
    BY DEF TypeOK, TasksOK, OriginOK
  <2>4. ASSUME NEW x \in Devices PROVE RoundOK(x)'
    BY DEF TypeOK, TasksOK, OriginOK, RoundOK, InRound
  <2> QED
    BY <2>1, <2>2, <2>3, <2>4
<1>9. ASSUME NEW d \in Devices, Compare(d) PROVE EchoInv'
  <2> USE <1>9 DEF Compare
  <2>1. TypeOK'
    <3>1. CASE lastEmitted[d] = Payload(content[d])
      BY <3>1, EndRoundFacts DEF TypeOK
    <3>2. CASE ~(lastEmitted[d] = Payload(content[d]))
      BY <3>2 DEF TypeOK
    <3> QED
      BY <3>1, <3>2
  <2>2. ASSUME NEW x \in Devices PROVE TasksOK(x)'
    <3>1. CASE lastEmitted[d] = Payload(content[d])
      <4>1. EndRound(d, "idle")
        BY <3>1
      <4>2. CASE x = d
        BY <4>1, <4>2, EndRoundFacts DEF TasksOK, InRound
      <4>3. CASE x # d
        <5>1. \A y \in Devices \ {d} :
                 /\ watcher'[y] = watcher[y]
                 /\ content'[y] = content[y]
                 /\ todo'[y] = todo[y]
                 /\ readOrigin'[y] = readOrigin[y]
                 /\ overlap'[y] = overlap[y]
          BY <4>1, EndRoundFacts
        <5>2. x \in Devices \ {d}
          BY <4>3
        <5>3. /\ watcher'[x] = watcher[x] /\ content'[x] = content[x]
              /\ readOrigin'[x] = readOrigin[x] /\ overlap'[x] = overlap[x]
          BY <5>1, <5>2
        <5>4. UNCHANGED <<handler, incoming, applying, lastEmitted>>
          OBVIOUS
        <5> QED
          BY <5>3, <5>4 DEF TasksOK, InRound
      <4> QED
        BY <4>2, <4>3
    <3>2. CASE ~(lastEmitted[d] = Payload(content[d]))
      BY <3>2 DEF TypeOK, TasksOK, InRound
    <3> QED
      BY <3>1, <3>2
  <2>3. ASSUME NEW x \in Devices PROVE OriginOK(x)'
    <3>1. CASE lastEmitted[d] = Payload(content[d])
      BY <3>1, EndRoundFacts DEF TypeOK, TasksOK, OriginOK
    <3>2. CASE ~(lastEmitted[d] = Payload(content[d]))
      BY <3>2 DEF TypeOK, TasksOK, OriginOK
    <3> QED
      BY <3>1, <3>2
  <2>4. ASSUME NEW x \in Devices PROVE RoundOK(x)'
    <3>1. CASE lastEmitted[d] = Payload(content[d])
      <4>1. EndRound(d, "idle")
        BY <3>1
      <4>2. CASE x = d
        BY <4>1, <4>2, EndRoundFacts DEF TasksOK, RoundOK, InRound
      <4>3. CASE x # d
        <5>1. \A y \in Devices \ {d} :
                 /\ watcher'[y] = watcher[y]
                 /\ content'[y] = content[y]
                 /\ todo'[y] = todo[y]
                 /\ readOrigin'[y] = readOrigin[y]
                 /\ overlap'[y] = overlap[y]
          BY <4>1, EndRoundFacts
        <5>2. x \in Devices \ {d}
          BY <4>3
        <5>3. /\ watcher'[x] = watcher[x] /\ content'[x] = content[x]
              /\ readOrigin'[x] = readOrigin[x] /\ overlap'[x] = overlap[x]
          BY <5>1, <5>2
        <5>4. UNCHANGED <<handler, incoming, applying, lastEmitted>>
          OBVIOUS
        <5> QED
          BY <5>3, <5>4 DEF TasksOK, RoundOK, InRound
      <4> QED
        BY <4>2, <4>3
    <3>2. CASE ~(lastEmitted[d] = Payload(content[d]))
      BY <3>2 DEF TypeOK, TasksOK, OriginOK, RoundOK, InRound
    <3> QED
      BY <3>1, <3>2
  <2> QED
    BY <2>1, <2>2, <2>3, <2>4
<1>10. ASSUME NEW d \in Devices, Emit(d) PROVE EchoInv'
  <2> USE <1>10 DEF Emit
  <2>1. TypeOK'
    <3>1. Payload(content[d]) \in Payloads
      BY DEF TypeOK, TasksOK
    <3>2. lastEmitted' \in [Devices -> Payloads \cup {None}]
      BY <3>1 DEF TypeOK
    <3>3. disturbed' \in BOOLEAN
      BY DEF TypeOK
    <3>4. todo' \in [Devices -> SUBSET Devices]
      BY DEF TypeOK
    <3> QED
      BY <3>2, <3>3, <3>4 DEF TypeOK
  <2>2. ASSUME NEW x \in Devices PROVE TasksOK(x)'
    BY DEF TypeOK, TasksOK, InRound
  <2>3. ASSUME NEW x \in Devices PROVE OriginOK(x)'
    <3>1. CASE x = d
      <4>1. UNCHANGED <<clip, origin, handler, incoming>>
            /\ lastEmitted'[d] = Payload(content[d])
        BY DEF TypeOK
      <4>2. CASE overlap[d]
        <5>1. origin[d] # None => forgotten'[d]
          BY <4>2 DEF TypeOK
        <5> QED
          BY <3>1, <4>1, <5>1 DEF OriginOK
      <4>3. CASE ~overlap[d]
        <5>1. handler[d] = "idle"
          BY <4>3 DEF TasksOK, InRound
        <5>2. origin[d] # None => content[d] = ReadBack(d, clip[d])
          BY <4>3 DEF RoundOK
        <5> QED
          BY <3>1, <4>1, <5>1, <5>2 DEF OriginOK
      <4> QED
        BY <4>2, <4>3
    <3>2. CASE x # d
      BY <3>2 DEF TypeOK, OriginOK
    <3> QED
      BY <3>1, <3>2
  <2>4. ASSUME NEW x \in Devices PROVE RoundOK(x)'
    BY DEF TypeOK, TasksOK, OriginOK, RoundOK, InRound
  <2> QED
    BY <2>1, <2>2, <2>3, <2>4
<1>11. ASSUME NEW d \in Devices, NEW p \in Devices, SendTo(d, p) PROVE EchoInv'
  <2> USE <1>11 DEF SendTo
  <2>1. TypeOK'
    <3>1. Payload(content[d]) \in Payloads
      BY DEF TypeOK, TasksOK
    <3>2. net' \in [Devices -> SUBSET Payloads]
      BY <3>1 DEF TypeOK
    <3> QED
      BY <3>2, TriedFacts DEF TypeOK
  <2>2. ASSUME NEW x \in Devices PROVE TasksOK(x)'
    <3>1. CASE x = d
      BY <3>1, TriedFacts DEF TypeOK, TasksOK, InRound
    <3>2. CASE x # d
      <4>1. Tried(d, p) /\ watcher[d] = "publishing" /\ p \in todo[d]
        OBVIOUS
      <4>2. UNCHANGED <<handler, incoming, applying, lastEmitted>>
        OBVIOUS
      <4>3. /\ watcher'[x] = watcher[x] /\ content'[x] = content[x]
            /\ readOrigin'[x] = readOrigin[x] /\ overlap'[x] = overlap[x]
        <5>1. \A y \in Devices \ {d} :
                 /\ watcher'[y] = watcher[y]
                 /\ content'[y] = content[y]
                 /\ todo'[y] = todo[y]
                 /\ readOrigin'[y] = readOrigin[y]
                 /\ overlap'[y] = overlap[y]
          BY <4>1, TriedFacts
        <5>2. x \in Devices \ {d}
          BY <3>2
        <5> QED
          BY <5>1, <5>2
      <4> QED
        BY <4>2, <4>3 DEF TasksOK, InRound
    <3> QED
      BY <3>1, <3>2
  <2>3. ASSUME NEW x \in Devices PROVE OriginOK(x)'
    BY DEF TypeOK, TasksOK, OriginOK
  <2>4. ASSUME NEW x \in Devices PROVE RoundOK(x)'
    <3>1. CASE x = d
      BY <3>1, TriedFacts DEF TypeOK, TasksOK, RoundOK, InRound
    <3>2. CASE x # d
      <4>1. Tried(d, p) /\ watcher[d] = "publishing" /\ p \in todo[d]
        OBVIOUS
      <4>2. UNCHANGED <<handler, incoming, applying, lastEmitted>>
        OBVIOUS
      <4>3. /\ watcher'[x] = watcher[x] /\ content'[x] = content[x]
            /\ readOrigin'[x] = readOrigin[x] /\ overlap'[x] = overlap[x]
        <5>1. \A y \in Devices \ {d} :
                 /\ watcher'[y] = watcher[y]
                 /\ content'[y] = content[y]
                 /\ todo'[y] = todo[y]
                 /\ readOrigin'[y] = readOrigin[y]
                 /\ overlap'[y] = overlap[y]
          BY <4>1, TriedFacts
        <5>2. x \in Devices \ {d}
          BY <3>2
        <5> QED
          BY <5>1, <5>2
      <4> QED
        BY <4>2, <4>3 DEF TasksOK, RoundOK, InRound
    <3> QED
      BY <3>1, <3>2
  <2> QED
    BY <2>1, <2>2, <2>3, <2>4
<1>12. ASSUME NEW d \in Devices, NEW p \in Devices, SendFails(d, p) PROVE EchoInv'
  <2> USE <1>12 DEF SendFails, Fault
  <2>1. TypeOK'
    <3>1. faults' \in 0 .. MaxFaults /\ disturbed' \in BOOLEAN
      BY DEF TypeOK
    <3> QED
      BY <3>1, TriedFacts DEF TypeOK
  <2>2. ASSUME NEW x \in Devices PROVE TasksOK(x)'
    <3>1. CASE x = d
      BY <3>1, TriedFacts DEF TypeOK, TasksOK, InRound
    <3>2. CASE x # d
      <4>1. Tried(d, p) /\ watcher[d] = "publishing" /\ p \in todo[d]
        OBVIOUS
      <4>2. UNCHANGED <<handler, incoming, applying, lastEmitted>>
        OBVIOUS
      <4>3. /\ watcher'[x] = watcher[x] /\ content'[x] = content[x]
            /\ readOrigin'[x] = readOrigin[x] /\ overlap'[x] = overlap[x]
        <5>1. \A y \in Devices \ {d} :
                 /\ watcher'[y] = watcher[y]
                 /\ content'[y] = content[y]
                 /\ todo'[y] = todo[y]
                 /\ readOrigin'[y] = readOrigin[y]
                 /\ overlap'[y] = overlap[y]
          BY <4>1, TriedFacts
        <5>2. x \in Devices \ {d}
          BY <3>2
        <5> QED
          BY <5>1, <5>2
      <4> QED
        BY <4>2, <4>3 DEF TasksOK, InRound
    <3> QED
      BY <3>1, <3>2
  <2>3. ASSUME NEW x \in Devices PROVE OriginOK(x)'
    BY DEF TypeOK, TasksOK, OriginOK
  <2>4. ASSUME NEW x \in Devices PROVE RoundOK(x)'
    <3>1. CASE x = d
      BY <3>1, TriedFacts DEF TypeOK, TasksOK, RoundOK, InRound
    <3>2. CASE x # d
      <4>1. Tried(d, p) /\ watcher[d] = "publishing" /\ p \in todo[d]
        OBVIOUS
      <4>2. UNCHANGED <<handler, incoming, applying, lastEmitted>>
        OBVIOUS
      <4>3. /\ watcher'[x] = watcher[x] /\ content'[x] = content[x]
            /\ readOrigin'[x] = readOrigin[x] /\ overlap'[x] = overlap[x]
        <5>1. \A y \in Devices \ {d} :
                 /\ watcher'[y] = watcher[y]
                 /\ content'[y] = content[y]
                 /\ todo'[y] = todo[y]
                 /\ readOrigin'[y] = readOrigin[y]
                 /\ overlap'[y] = overlap[y]
          BY <4>1, TriedFacts
        <5>2. x \in Devices \ {d}
          BY <3>2
        <5> QED
          BY <5>1, <5>2
      <4> QED
        BY <4>2, <4>3 DEF TasksOK, RoundOK, InRound
    <3> QED
      BY <3>1, <3>2
  <2> QED
    BY <2>1, <2>2, <2>3, <2>4
<1>13. ASSUME NEW d \in Devices, NEW p \in Payloads, BeginApply(d, p) PROVE EchoInv'
  <2> USE <1>13 DEF BeginApply, SetApplying
  <2>1. TypeOK'
    BY DEF TypeOK, InRound
  <2>2. ASSUME NEW x \in Devices PROVE TasksOK(x)'
    <3>1. CASE x = d
      <4>1. handler'[d] = "writing" /\ applying'[d] = TRUE /\ incoming'[d] = p
        BY DEF TypeOK
      <4>2. watcher' = watcher /\ content' = content
        OBVIOUS
      <4>3. overlap'[d] = InRound(d)
        BY DEF TypeOK
      <4>4. InRound(d)' = InRound(d)
        BY <4>2 DEF InRound
      <4> QED
        BY <3>1, <4>1, <4>2, <4>3, <4>4 DEF TasksOK
    <3>2. CASE x # d
      BY <3>2 DEF TypeOK, TasksOK, InRound
    <3> QED
      BY <3>1, <3>2
  <2>3. ASSUME NEW x \in Devices PROVE OriginOK(x)'
    BY DEF TypeOK, TasksOK, OriginOK
  <2>4. ASSUME NEW x \in Devices PROVE RoundOK(x)'
    BY DEF TypeOK, TasksOK, OriginOK, RoundOK, InRound
  <2> QED
    BY <2>1, <2>2, <2>3, <2>4
<1>14. ASSUME NEW d \in Devices, NEW p \in Payloads, Refuse(d, p) PROVE EchoInv'
  <2> USE <1>14 DEF Refuse, Fault
  <2>1. TypeOK'
    BY DEF TypeOK
  <2>2. ASSUME NEW x \in Devices PROVE TasksOK(x)'
    BY DEF TypeOK, TasksOK, InRound
  <2>3. ASSUME NEW x \in Devices PROVE OriginOK(x)'
    BY DEF TypeOK, TasksOK, OriginOK
  <2>4. ASSUME NEW x \in Devices PROVE RoundOK(x)'
    BY DEF TypeOK, TasksOK, OriginOK, RoundOK, InRound
  <2> QED
    BY <2>1, <2>2, <2>3, <2>4
<1>15. ASSUME NEW d \in Devices, Write(d) PROVE EchoInv'
  <2> USE <1>15 DEF Write
  <2>0. incoming[d] \in Payloads /\ incoming[d][2] \in Values
    BY DEF TasksOK
  <2>1. TypeOK'
    <3>1. clip' \in [Devices -> Values \cup {None}]
      BY <2>0 DEF TypeOK
    <3>2. /\ origin' \in [Devices -> Payloads \cup {None}]
          /\ forgotten' \in [Devices -> BOOLEAN] /\ disturbed' \in BOOLEAN
      BY <2>0 DEF TypeOK
    <3> QED
      BY <3>1, <3>2 DEF TypeOK
  <2>2. ASSUME NEW x \in Devices PROVE TasksOK(x)'
    BY DEF TypeOK, TasksOK, InRound
  <2>3. ASSUME NEW x \in Devices PROVE OriginOK(x)'
    <3>1. CASE x = d
      <4>1. clip'[d] = incoming[d][2] /\ handler'[d] = "written" /\ incoming' = incoming
        BY DEF TypeOK
      <4>2. origin'[d] = incoming[d]
        BY DEF TypeOK
      <4> QED
        BY <2>0, <3>1, <4>1, <4>2 DEF OriginOK
    <3>2. CASE x # d
      BY <3>2 DEF TypeOK, OriginOK
    <3> QED
      BY <3>1, <3>2
  <2>4. ASSUME NEW x \in Devices PROVE RoundOK(x)'
    BY DEF TypeOK, TasksOK, OriginOK, RoundOK, InRound
  <2> QED
    BY <2>1, <2>2, <2>3, <2>4
<1>16. ASSUME NEW d \in Devices, WriteFails(d) PROVE EchoInv'
  <2> USE <1>16 DEF WriteFails, Fault
  <2>1. TypeOK'
    BY DEF TypeOK
  <2>2. ASSUME NEW x \in Devices PROVE TasksOK(x)'
    BY DEF TypeOK, TasksOK, InRound
  <2>3. ASSUME NEW x \in Devices PROVE OriginOK(x)'
    BY DEF TypeOK, TasksOK, OriginOK
  <2>4. ASSUME NEW x \in Devices PROVE RoundOK(x)'
    BY DEF TypeOK, TasksOK, OriginOK, RoundOK, InRound
  <2> QED
    BY <2>1, <2>2, <2>3, <2>4
<1>17. ASSUME NEW d \in Devices, EndApply(d) PROVE EchoInv'
  <2> USE <1>17 DEF EndApply, SetApplying
  <2>1. TypeOK'
    BY DEF TypeOK
  <2>2. ASSUME NEW x \in Devices PROVE TasksOK(x)'
    BY DEF TypeOK, TasksOK, InRound
  <2>3. ASSUME NEW x \in Devices PROVE OriginOK(x)'
    BY DEF TypeOK, TasksOK, OriginOK
  <2>4. ASSUME NEW x \in Devices PROVE RoundOK(x)'
    BY DEF TypeOK, TasksOK, OriginOK, RoundOK, InRound
  <2> QED
    BY <2>1, <2>2, <2>3, <2>4
<1>18. ASSUME NEW d \in Devices, Start(d) PROVE EchoInv'
  <2> USE <1>18 DEF Start
  <2>1. TypeOK'
    BY DEF TypeOK
  <2>2. ASSUME NEW x \in Devices PROVE TasksOK(x)'
    BY DEF TypeOK, TasksOK, InRound
  <2>3. ASSUME NEW x \in Devices PROVE OriginOK(x)'
    BY DEF TypeOK, TasksOK, OriginOK
  <2>4. ASSUME NEW x \in Devices PROVE RoundOK(x)'
    BY DEF TypeOK, TasksOK, OriginOK, RoundOK, InRound
  <2> QED
    BY <2>1, <2>2, <2>3, <2>4
<1>19. ASSUME NEW d \in Devices, Stop(d) PROVE EchoInv'
  <2> USE <1>19 DEF Stop, EndRound, Fault
  <2>1. TypeOK'
    BY DEF TypeOK
  <2>2. ASSUME NEW x \in Devices PROVE TasksOK(x)'
    BY DEF TypeOK, TasksOK, InRound
  <2>3. ASSUME NEW x \in Devices PROVE OriginOK(x)'
    BY DEF TypeOK, TasksOK, OriginOK
  <2>4. ASSUME NEW x \in Devices PROVE RoundOK(x)'
    BY DEF TypeOK, TasksOK, OriginOK, RoundOK, InRound
  <2> QED
    BY <2>1, <2>2, <2>3, <2>4
<1>20. ASSUME NEW d \in Devices, NEW p \in Payloads, LoseMessage(d, p) PROVE EchoInv'
  <2> USE <1>20 DEF LoseMessage, Fault
  <2>1. TypeOK'
    BY DEF TypeOK
  <2>2. ASSUME NEW x \in Devices PROVE TasksOK(x)'
    BY DEF TypeOK, TasksOK, InRound
  <2>3. ASSUME NEW x \in Devices PROVE OriginOK(x)'
    BY DEF TypeOK, TasksOK, OriginOK
  <2>4. ASSUME NEW x \in Devices PROVE RoundOK(x)'
    BY DEF TypeOK, TasksOK, OriginOK, RoundOK, InRound
  <2> QED
    BY <2>1, <2>2, <2>3, <2>4
<1>21. ASSUME NEW d \in Devices, Restart(d) PROVE EchoInv'
  <2> USE <1>21 DEF Restart, EndRound, Fault
  <2>1. TypeOK'
    BY DEF TypeOK
  <2>2. ASSUME NEW x \in Devices PROVE TasksOK(x)'
    BY DEF TypeOK, TasksOK, InRound
  <2>3. ASSUME NEW x \in Devices PROVE OriginOK(x)'
    <3>1. CASE x = d
      <4>1. UNCHANGED <<clip, origin>> /\ (origin[d] # None => forgotten'[d])
        BY DEF TypeOK
      <4> QED
        BY <3>1, <4>1 DEF OriginOK
    <3>2. CASE x # d
      BY <3>2 DEF TypeOK, OriginOK
    <3> QED
      BY <3>1, <3>2
  <2>4. ASSUME NEW x \in Devices PROVE RoundOK(x)'
    BY DEF TypeOK, TasksOK, OriginOK, RoundOK, InRound
  <2> QED
    BY <2>1, <2>2, <2>3, <2>4
<1> QED
  BY <1>1, <1>2, <1>3, <1>4, <1>5, <1>6, <1>7, <1>8, <1>9, <1>10, <1>11, <1>12,
     <1>13, <1>14, <1>15, <1>16, <1>17, <1>18, <1>19, <1>20, <1>21 DEF Next

\* Every variable of Clipboard stays in its range.
THEOREM TypeCorrect == Spec => []TypeOK
<1>1. EchoInv => TypeOK
  BY DEF EchoInv
<1> QED
  BY <1>1, EchoInit, EchoInductive, PTL DEF Spec

\* A value that a peer's message put on the clipboard is published back only if a
\* message began to be applied in the middle of the round, if it reads as another
\* payload than the one received, or if last_emitted was set for something else
\* since or went with the process (watcher.rs 22-61, mod.rs 134-144).
THEOREM LoopGuard == Spec => []NoEcho
<1>1. EchoInv => NoEcho
  BY DEF EchoInv, RoundOK, NoEcho
<1> QED
  BY <1>1, EchoInit, EchoInductive, PTL DEF Spec

-----------------------------------------------------------------------------
(* Where the last copy is. *)

\* What a step leaves alone on a device, it leaves alone in OnlyLatest.
LEMMA OnlyLatestFrame ==
    ASSUME NEW x \in Devices, OnlyLatest(x), latest' = latest,
           net'[x] = net[x], handler'[x] = handler[x], incoming'[x] = incoming[x],
           clip'[x] = clip[x], lastEmitted'[x] = lastEmitted[x],
           watcher'[x] = watcher[x], content'[x] = content[x],
           overlap'[x] = overlap[x]
    PROVE  OnlyLatest(x)'
  BY DEF OnlyLatest, Arrived, Settled, Unsent, RoundLatest

\* A step of a round that neither emits nor sends moves no copy.
LEMMA RoundMovesNothing ==
    ASSUME TypeOK, NEW d \in Devices,
           \A x \in Devices : OnlyLatest(x),
           (\E o \in Devices : Before(o)) \/ After,
           UNCHANGED <<latest, net, handler, incoming, clip, lastEmitted>>,
           \A x \in Devices \ {d} :
              /\ watcher'[x] = watcher[x] /\ content'[x] = content[x]
              /\ todo'[x] = todo[x] /\ overlap'[x] = overlap[x],
           watcher[d] # "publishing", watcher'[d] # "publishing",
           RoundLatest(d)'
    PROVE  /\ \A x \in Devices : OnlyLatest(x)'
           /\ (\E o \in Devices : Before(o)') \/ After'
<1>1. ASSUME NEW x \in Devices PROVE OnlyLatest(x)'
  <2>1. CASE x = d
    BY <2>1 DEF OnlyLatest, Arrived, Settled, Unsent
  <2>2. CASE x # d
    <3>1. x \in Devices \ {d}
      BY <2>2
    <3>2. watcher'[x] = watcher[x] /\ content'[x] = content[x] /\ overlap'[x] = overlap[x]
      BY <3>1
    <3> QED
      BY <3>2, OnlyLatestFrame
  <2> QED
    BY <2>1, <2>2
<1>2. \A x \in Devices : Unsent(x)' = Unsent(x) /\ Arrived(x)' = Arrived(x)
  BY DEF Unsent, Arrived
<1>3. \A x \in Devices : watcher'[x] = "publishing" <=> watcher[x] = "publishing"
  OBVIOUS
<1>4. ASSUME NEW o \in Devices, Before(o) PROVE Before(o)'
  BY <1>2, <1>3, <1>4 DEF Before
<1>5. ASSUME After PROVE After'
  <2>1. ASSUME NEW x \in Devices, Coming(x) PROVE Coming(x)'
    <3>1. ASSUME NEW o \in Devices, watcher[o] = "publishing", x \in todo[o]
          PROVE  watcher'[o] = "publishing" /\ x \in todo'[o]
      BY <3>1
    <3> QED
      BY <2>1, <3>1 DEF Coming
  <2> QED
    BY <1>2, <1>5, <2>1 DEF After
<1> QED
  BY <1>1, <1>4, <1>5

\* Every step keeps an undisturbed copy where it is or takes it on.
LEMMA CopyInductive == EchoInv /\ EchoInv' /\ CopyOK /\ [Next]_vars => CopyOK'
<1> SUFFICES ASSUME EchoInv, EchoInv', CopyOK, [Next]_vars, ~disturbed', latest' # None
             PROVE  /\ \A x \in Devices : OnlyLatest(x)'
                    /\ (\E o \in Devices : Before(o)') \/ After'
  BY DEF CopyOK
<1> USE ClipboardAssumption, ValueFacts
    DEF watcherVars, handlerVars, historyVars
<1>0. TypeOK /\ \A x \in Devices : TasksOK(x)
  BY DEF EchoInv
<1> DEFINE Was == /\ \A x \in Devices : OnlyLatest(x)
                  /\ (\E o \in Devices : Before(o)) \/ After
           Is == /\ \A x \in Devices : OnlyLatest(x)'
                 /\ (\E o \in Devices : Before(o)') \/ After'
<1>a. ~disturbed /\ latest' = latest => Was
  BY DEF CopyOK
<1> HIDE DEF Was
<1> HIDE DEF Is
<1> SUFFICES Is
  BY DEF Is
<1>1. CASE UNCHANGED vars
  <2>1. Was /\ UNCHANGED <<clip, lastEmitted, watcher, content, todo, handler,
                            incoming, net, overlap, latest>>
    BY <1>1, <1>a DEF vars
  <2> QED
    BY <2>1 DEF Was, Is, OnlyLatest, Before, After, Coming, Arrived, Settled, Unsent,
                RoundLatest
<1>2. ASSUME NEW d \in Devices, NEW v \in Copied, UserCopies(d, v) PROVE Is
  <2>1. Quiet /\ lastEmitted[d] # Payload(ReadBack(d, v))
    BY <1>2 DEF UserCopies
  <2>2. /\ latest' = ReadBack(d, v) /\ clip' = [clip EXCEPT ![d] = v]
        /\ UNCHANGED <<lastEmitted, watcher, content, todo, handler, incoming,
                       net, overlap>>
    BY <1>2 DEF UserCopies
  <2>3. clip'[d] = v /\ v # None /\ \A x \in Devices \ {d} : clip'[x] = clip[x]
    BY <1>0, <2>2 DEF TypeOK
  <2>4. \A x \in Devices : /\ net'[x] = {} /\ watcher'[x] = "idle"
                            /\ handler'[x] = "idle"
    BY <2>1, <2>2 DEF Quiet
  <2>5. Unsent(d)'
    BY <2>1, <2>2, <2>3, <2>4 DEF Unsent
  <2>6. ASSUME NEW x \in Devices, x # d PROVE Settled(x)' /\ ~Unsent(x)'
    <3>1. clip'[x] # None => lastEmitted'[x] = Payload(ReadBack(x, clip'[x]))
      BY <2>1, <2>2, <2>3, <2>6 DEF Quiet
    <3> QED
      BY <3>1 DEF Settled, Unsent
  <2>7. ASSUME NEW x \in Devices PROVE OnlyLatest(x)'
    BY <2>4, <2>5, <2>6 DEF OnlyLatest, RoundLatest
  <2>8. Before(d)'
    BY <2>4, <2>5, <2>6 DEF Before
  <2> QED
    BY <2>7, <2>8 DEF Is
<1>3. ASSUME NEW d \in Devices, NEW v \in OldTexts, LegacyText(d, v) PROVE Is
  BY <1>3 DEF LegacyText
<1>4. ASSUME NEW d \in Devices, Tick(d) PROVE Is
  <2>1. Was /\ UNCHANGED <<latest, net, handler, incoming, clip, lastEmitted>>
    BY <1>4, <1>a DEF Tick
  <2>2. /\ \A x \in Devices \ {d} :
              /\ watcher'[x] = watcher[x] /\ content'[x] = content[x]
              /\ todo'[x] = todo[x] /\ overlap'[x] = overlap[x]
        /\ watcher[d] # "publishing" /\ watcher'[d] # "publishing"
    BY <1>0, <1>4 DEF TypeOK, Tick
  <2>3. RoundLatest(d)'
    BY <1>0, <1>4 DEF TypeOK, RoundLatest, Tick
  <2> QED
    BY <1>0, <2>1, <2>2, <2>3, RoundMovesNothing DEF Was, Is
<1>5. ASSUME NEW d \in Devices, Read(d) PROVE Is
  <2>1. Was /\ UNCHANGED <<latest, net, handler, incoming, clip, lastEmitted>>
    BY <1>5, <1>a DEF Read, EndRound
  <2>2. /\ \A x \in Devices \ {d} :
              /\ watcher'[x] = watcher[x] /\ content'[x] = content[x]
              /\ todo'[x] = todo[x] /\ overlap'[x] = overlap[x]
        /\ watcher[d] # "publishing" /\ watcher'[d] # "publishing"
    BY <1>0, <1>5 DEF TypeOK, Read, EndRound
  <2>3. RoundLatest(d)'
    <3>1. CASE clip[d] = None
      BY <1>0, <1>5, <3>1 DEF TypeOK, RoundLatest, Read, EndRound
    <3>2. CASE clip[d] # None
      <4>1. /\ content'[d] = ReadBack(d, clip[d]) /\ overlap' = overlap
            /\ watcher'[d] \in {"building", "comparing"}
        BY <1>0, <1>5, <3>2 DEF TypeOK, Read
      <4>2. ~overlap[d] => handler[d] = "idle"
        BY <1>0, <1>5 DEF TasksOK, InRound, Read
      <4>3. Settled(d) \/ Unsent(d)
        BY <2>1 DEF Was, OnlyLatest
      <4> QED
        BY <2>1, <3>2, <4>1, <4>2, <4>3 DEF Settled, Unsent, RoundLatest
    <3> QED
      BY <3>1, <3>2
  <2> QED
    BY <1>0, <2>1, <2>2, <2>3, RoundMovesNothing DEF Was, Is
<1>6. ASSUME NEW d \in Devices, ReadFails(d) PROVE Is
  <2>1. Was /\ UNCHANGED <<latest, net, handler, incoming, clip, lastEmitted>>
    BY <1>6, <1>a DEF ReadFails, EndRound
  <2>2. /\ \A x \in Devices \ {d} :
              /\ watcher'[x] = watcher[x] /\ content'[x] = content[x]
              /\ todo'[x] = todo[x] /\ overlap'[x] = overlap[x]
        /\ watcher[d] # "publishing" /\ watcher'[d] # "publishing"
    BY <1>0, <1>6 DEF TypeOK, ReadFails, EndRound
  <2>3. RoundLatest(d)'
    BY <1>0, <1>6 DEF TypeOK, RoundLatest, ReadFails, EndRound
  <2> QED
    BY <1>0, <2>1, <2>2, <2>3, RoundMovesNothing DEF Was, Is
<1>7. ASSUME NEW d \in Devices, Build(d) PROVE Is
  <2>1. Was /\ UNCHANGED <<latest, net, handler, incoming, clip, lastEmitted>>
    BY <1>7, <1>a DEF Build
  <2>2. /\ \A x \in Devices \ {d} :
              /\ watcher'[x] = watcher[x] /\ content'[x] = content[x]
              /\ todo'[x] = todo[x] /\ overlap'[x] = overlap[x]
        /\ watcher[d] # "publishing" /\ watcher'[d] # "publishing"
    BY <1>0, <1>7 DEF TypeOK, Build
  <2>3. RoundLatest(d)'
    <3>1. /\ watcher[d] = "building" /\ watcher'[d] = "comparing"
          /\ UNCHANGED <<content, overlap>>
      BY <1>0, <1>7 DEF TypeOK, Build
    <3> QED
      BY <2>1, <3>1 DEF Was, OnlyLatest, Unsent, RoundLatest
  <2> QED
    BY <1>0, <2>1, <2>2, <2>3, RoundMovesNothing DEF Was, Is
<1>8. ASSUME NEW d \in Devices, BuildFails(d) PROVE Is
  BY <1>8 DEF BuildFails, Fault
<1>9. ASSUME NEW d \in Devices, Compare(d) PROVE Is
  <2>1. Was /\ UNCHANGED <<latest, net, handler, incoming, clip, lastEmitted>>
    BY <1>9, <1>a DEF Compare, EndRound
  <2>2. /\ \A x \in Devices \ {d} :
              /\ watcher'[x] = watcher[x] /\ content'[x] = content[x]
              /\ todo'[x] = todo[x] /\ overlap'[x] = overlap[x]
        /\ watcher[d] # "publishing" /\ watcher'[d] # "publishing"
    BY <1>0, <1>9 DEF TypeOK, Compare, EndRound
  <2>3. RoundLatest(d)'
    <3>1. CASE lastEmitted[d] = Payload(content[d])
      BY <1>0, <1>9, <3>1 DEF TypeOK, RoundLatest, Compare, EndRound
    <3>2. CASE lastEmitted[d] # Payload(content[d])
      <4>1. /\ watcher[d] = "comparing" /\ watcher'[d] = "emitting"
            /\ UNCHANGED <<content, overlap>>
        BY <1>0, <1>9, <3>2 DEF TypeOK, Compare
      <4> QED
        BY <2>1, <3>2, <4>1 DEF Was, OnlyLatest, Unsent, RoundLatest
    <3> QED
      BY <3>1, <3>2
  <2> QED
    BY <1>0, <2>1, <2>2, <2>3, RoundMovesNothing DEF Was, Is
<1>10. ASSUME NEW d \in Devices, Emit(d) PROVE Is
  <2>1. ~disturbed /\ ~overlap[d] /\ UNCHANGED <<latest, net, handler, incoming, clip, content>>
    BY <1>10 DEF Emit
  <2>2. Was
    BY <1>a, <2>1
  <2>3. watcher[d] = "emitting" /\ Unsent(d) /\ content[d] = latest
    BY <1>10, <2>1, <2>2 DEF Emit, Was, OnlyLatest, RoundLatest
  <2>4. Before(d)
    BY <2>2, <2>3 DEF Was, Before, After
  <2>5. /\ watcher'[d] = "publishing" /\ lastEmitted'[d] = Payload(latest)
        /\ todo'[d] = Devices \ {d}
    BY <1>0, <1>10, <2>3 DEF TypeOK, Emit
  <2>6. \A x \in Devices \ {d} :
           /\ watcher'[x] = watcher[x] /\ lastEmitted'[x] = lastEmitted[x]
           /\ overlap'[x] = overlap[x]
    BY <1>0, <1>10 DEF TypeOK, Emit
  <2>7. ASSUME NEW x \in Devices PROVE OnlyLatest(x)'
    <3>1. CASE x = d
      BY <2>1, <2>3, <2>4, <2>5, <3>1
         DEF Before, OnlyLatest, Settled, Unsent, RoundLatest
    <3>2. CASE x # d
      <4>1. x \in Devices \ {d} /\ OnlyLatest(x)
        BY <2>2, <3>2 DEF Was
      <4>2. /\ watcher'[x] = watcher[x] /\ lastEmitted'[x] = lastEmitted[x]
            /\ overlap'[x] = overlap[x]
        BY <2>6, <4>1
      <4> QED
        BY <2>1, <4>1, <4>2, OnlyLatestFrame
    <3> QED
      BY <3>1, <3>2
  <2>8. ASSUME NEW x \in Devices PROVE ~Unsent(x)' /\ (Arrived(x)' \/ Coming(x)')
    <3>1. CASE x = d
      BY <2>1, <2>3, <2>5, <3>1 DEF Unsent, Arrived
    <3>2. CASE x # d
      BY <2>1, <2>4, <2>5, <2>6, <3>2 DEF Before, Unsent, Coming
    <3> QED
      BY <3>1, <3>2
  <2> QED
    BY <2>7, <2>8 DEF Is, After
<1>11. ASSUME NEW d \in Devices, NEW p \in Devices, SendTo(d, p) PROVE Is
  <2>1. /\ Was /\ watcher[d] = "publishing" /\ p \in todo[d]
        /\ UNCHANGED <<latest, handler, incoming, clip, lastEmitted>>
    BY <1>11, <1>a DEF SendTo
  <2>2. content[d] = latest /\ After
    BY <2>1 DEF Was, OnlyLatest, Before
  <2>3. /\ net'[p] = net[p] \cup {Payload(latest)}
        /\ \A x \in Devices \ {p} : net'[x] = net[x]
    BY <1>0, <1>11, <2>2 DEF TypeOK, SendTo
  <2>4. /\ watcher'[d] \in {"idle", "publishing"}
        /\ watcher'[d] = "publishing" =>
              content'[d] = content[d] /\ todo'[d] = todo[d] \ {p}
        /\ watcher'[d] = "idle" => todo[d] = {p}
        /\ \A x \in Devices \ {d} :
              /\ watcher'[x] = watcher[x]
              /\ content'[x] = content[x]
              /\ todo'[x] = todo[x]
              /\ readOrigin'[x] = readOrigin[x]
              /\ overlap'[x] = overlap[x]
    <3>1. Tried(d, p)
      BY <1>11 DEF SendTo
    <3> QED
      BY <1>0, <2>1, <3>1, TriedFacts
  <2>5. ASSUME NEW x \in Devices PROVE OnlyLatest(x)'
    <3>1. OnlyLatest(x) /\ net'[x] \subseteq {Payload(latest)}
      BY <2>1, <2>3 DEF Was, OnlyLatest
    <3>2. CASE x = d
      BY <2>1, <2>2, <2>4, <3>1, <3>2
         DEF OnlyLatest, Arrived, Settled, Unsent, RoundLatest
    <3>3. CASE x # d
      <4>1. /\ watcher'[x] = watcher[x] /\ content'[x] = content[x]
            /\ overlap'[x] = overlap[x]
        BY <2>4, <3>3
      <4> QED
        BY <2>1, <3>1, <4>1 DEF OnlyLatest, Arrived, Settled, Unsent, RoundLatest
    <3> QED
      BY <3>2, <3>3
  <2>6. ASSUME NEW x \in Devices PROVE ~Unsent(x)' /\ (Arrived(x)' \/ Coming(x)')
    <3>1. ~Unsent(x) /\ (Arrived(x) \/ Coming(x))
      BY <2>2 DEF After
    <3>2. ~Unsent(x)' /\ (Arrived(x) => Arrived(x)')
      BY <2>1, <3>1 DEF Unsent, Arrived
    <3>3. CASE Payload(latest) \in net[x]
      BY <2>1, <2>3, <3>2, <3>3 DEF Coming
    <3>4. CASE handler[x] # "idle"
      BY <2>1, <3>2, <3>4 DEF Coming
    <3>5. ASSUME NEW o \in Devices, watcher[o] = "publishing", x \in todo[o]
          PROVE  Coming(x)'
      <4>1. CASE x = p
        BY <2>1, <2>3, <4>1 DEF Coming
      <4>2. CASE x # p
        <5>1. watcher'[o] = "publishing" /\ x \in todo'[o]
          BY <2>4, <3>5, <4>2
        <5> QED
          BY <5>1 DEF Coming
      <4> QED
        BY <4>1, <4>2
    <3> QED
      BY <3>1, <3>2, <3>3, <3>4, <3>5 DEF Coming
  <2> QED
    BY <2>5, <2>6 DEF Is, After
<1>12. ASSUME NEW d \in Devices, NEW p \in Devices, SendFails(d, p) PROVE Is
  BY <1>12 DEF SendFails, Fault
<1>13. ASSUME NEW d \in Devices, NEW p \in Payloads, BeginApply(d, p) PROVE Is
  <2>1. /\ Was /\ p \in net[d]
        /\ UNCHANGED <<latest, clip, lastEmitted, watcher, content, todo>>
    BY <1>13, <1>a DEF BeginApply
  <2>2. p = Payload(latest) /\ After
    BY <2>1 DEF Was, OnlyLatest, Before
  <2>3. /\ net'[d] = net[d] \ {p} /\ handler'[d] = "writing" /\ incoming'[d] = p
        /\ InRound(d) => overlap'[d]
        /\ \A x \in Devices \ {d} :
              /\ net'[x] = net[x] /\ handler'[x] = handler[x]
              /\ incoming'[x] = incoming[x] /\ overlap'[x] = overlap[x]
    BY <1>0, <1>13 DEF TypeOK, BeginApply
  <2>4. ASSUME NEW x \in Devices PROVE OnlyLatest(x)'
    <3>1. OnlyLatest(x)
      BY <2>1 DEF Was
    <3>2. CASE x = d
      BY <2>1, <2>2, <2>3, <3>1, <3>2 DEF OnlyLatest, Settled, RoundLatest, InRound
    <3>3. CASE x # d
      <4>1. /\ net'[x] = net[x] /\ handler'[x] = handler[x]
            /\ incoming'[x] = incoming[x] /\ overlap'[x] = overlap[x]
        BY <2>3, <3>3
      <4> QED
        BY <2>1, <3>1, <4>1, OnlyLatestFrame
    <3> QED
      BY <3>2, <3>3
  <2>5. ASSUME NEW x \in Devices PROVE ~Unsent(x)' /\ (Arrived(x)' \/ Coming(x)')
    <3>1. CASE x = d
      BY <2>3, <3>1 DEF Unsent, Coming
    <3>2. CASE x # d
      <4>1. net'[x] = net[x] /\ handler'[x] = handler[x]
        BY <2>3, <3>2
      <4> QED
        BY <2>1, <2>2, <4>1 DEF After, Unsent, Arrived, Coming
    <3> QED
      BY <3>1, <3>2
  <2> QED
    BY <2>4, <2>5 DEF Is, After
<1>14. ASSUME NEW d \in Devices, NEW p \in Payloads, Refuse(d, p) PROVE Is
  BY <1>14 DEF Refuse, Fault
<1>15. ASSUME NEW d \in Devices, Write(d) PROVE Is
  <2>1. /\ ~disturbed /\ handler[d] = "writing"
        /\ incoming[d] = Payload(ReadBack(d, incoming[d][2]))
        /\ UNCHANGED <<latest, lastEmitted, incoming, net, overlap, watcher, content, todo>>
    BY <1>15 DEF Write
  <2>2. Was
    BY <1>a, <2>1
  <2>3. incoming[d] = Payload(latest) /\ After
    BY <2>1, <2>2 DEF Was, OnlyLatest, Before
  <2>4. incoming[d][2] = latest
    BY <2>3 DEF Payload
  <2>5. latest = ReadBack(d, latest) /\ latest # None
    BY <2>1, <2>3, <2>4
  <2>6. clip'[d] = latest /\ handler'[d] = "written"
    BY <1>0, <1>15, <2>4 DEF TypeOK, Write
  <2>7. \A x \in Devices \ {d} : clip'[x] = clip[x] /\ handler'[x] = handler[x]
    BY <1>0, <1>15 DEF TypeOK, Write
  <2>8. InRound(d) => overlap[d]
    BY <1>0, <2>1 DEF TasksOK
  <2>9. ASSUME NEW x \in Devices PROVE OnlyLatest(x)'
    <3>1. OnlyLatest(x)
      BY <2>2 DEF Was
    <3>2. CASE x = d
      BY <2>1, <2>3, <2>5, <2>6, <2>8, <3>1, <3>2
         DEF OnlyLatest, Arrived, Settled, RoundLatest, InRound
    <3>3. CASE x # d
      BY <2>1, <2>7, <3>1, <3>3, OnlyLatestFrame
    <3> QED
      BY <3>2, <3>3
  <2>10. ASSUME NEW x \in Devices PROVE ~Unsent(x)' /\ (Arrived(x)' \/ Coming(x)')
    <3>1. CASE x = d
      BY <2>6, <3>1 DEF Unsent, Coming
    <3>2. CASE x # d
      <4>1. clip'[x] = clip[x] /\ handler'[x] = handler[x]
        BY <2>7, <3>2
      <4> QED
        BY <2>1, <2>3, <4>1 DEF After, Unsent, Arrived, Coming
    <3> QED
      BY <3>1, <3>2
  <2> QED
    BY <2>9, <2>10 DEF Is, After
<1>16. ASSUME NEW d \in Devices, WriteFails(d) PROVE Is
  BY <1>16 DEF WriteFails, Fault
<1>17. ASSUME NEW d \in Devices, EndApply(d) PROVE Is
  <2>1. /\ Was /\ handler[d] = "written"
        /\ UNCHANGED <<latest, clip, net, overlap, watcher, content, todo>>
    BY <1>17, <1>a DEF EndApply
  <2>2. incoming[d] = Payload(latest) /\ Arrived(d) /\ After
    BY <2>1 DEF Was, OnlyLatest, Before
  <2>3. handler'[d] = "idle" /\ lastEmitted'[d] = Payload(latest)
    BY <1>0, <1>17, <2>2 DEF TypeOK, EndApply
  <2>4. \A x \in Devices \ {d} :
           /\ handler'[x] = handler[x] /\ lastEmitted'[x] = lastEmitted[x]
           /\ incoming'[x] = incoming[x]
    BY <1>0, <1>17 DEF TypeOK, EndApply
  <2>5. InRound(d) => overlap[d]
    BY <1>0, <2>1 DEF TasksOK
  <2>6. ASSUME NEW x \in Devices PROVE OnlyLatest(x)'
    <3>1. OnlyLatest(x)
      BY <2>1 DEF Was
    <3>2. CASE x = d
      BY <2>1, <2>2, <2>3, <2>5, <3>1, <3>2
         DEF OnlyLatest, Arrived, Settled, RoundLatest, InRound
    <3>3. CASE x # d
      BY <2>1, <2>4, <3>1, <3>3, OnlyLatestFrame
    <3> QED
      BY <3>2, <3>3
  <2>7. ASSUME NEW x \in Devices PROVE ~Unsent(x)' /\ (Arrived(x)' \/ Coming(x)')
    <3>1. CASE x = d
      BY <2>1, <2>2, <2>3, <3>1 DEF Unsent, Arrived
    <3>2. CASE x # d
      <4>1. handler'[x] = handler[x] /\ lastEmitted'[x] = lastEmitted[x]
        BY <2>4, <3>2
      <4> QED
        BY <2>1, <2>2, <4>1 DEF After, Unsent, Arrived, Coming
    <3> QED
      BY <3>1, <3>2
  <2> QED
    BY <2>6, <2>7 DEF Is, After
<1>18. ASSUME NEW d \in Devices, Start(d) PROVE Is
  <2>1. Was /\ UNCHANGED <<latest, net, handler, incoming, clip, lastEmitted>>
    BY <1>18, <1>a DEF Start
  <2>2. /\ \A x \in Devices \ {d} :
              /\ watcher'[x] = watcher[x] /\ content'[x] = content[x]
              /\ todo'[x] = todo[x] /\ overlap'[x] = overlap[x]
        /\ watcher[d] # "publishing" /\ watcher'[d] # "publishing"
    BY <1>0, <1>18 DEF TypeOK, Start
  <2>3. RoundLatest(d)'
    BY <1>0, <1>18 DEF TypeOK, RoundLatest, Start
  <2> QED
    BY <1>0, <2>1, <2>2, <2>3, RoundMovesNothing DEF Was, Is
<1>19. ASSUME NEW d \in Devices, Stop(d) PROVE Is
  BY <1>19 DEF Stop, Fault
<1>20. ASSUME NEW d \in Devices, NEW p \in Payloads, LoseMessage(d, p) PROVE Is
  BY <1>20 DEF LoseMessage, Fault
<1>21. ASSUME NEW d \in Devices, Restart(d) PROVE Is
  BY <1>21 DEF Restart, Fault
<1> QED
  BY <1>1, <1>2, <1>3, <1>4, <1>5, <1>6, <1>7, <1>8, <1>9, <1>10, <1>11, <1>12,
     <1>13, <1>14, <1>15, <1>16, <1>17, <1>18, <1>19, <1>20, <1>21 DEF Next

\* A copy made on a quiet system, with no failure and no stale round after it,
\* is on every device once the system is quiet again (watcher.rs 20-73,
\* mod.rs 120-151).
THEOREM SameEverywhere == Spec => []QuietMeansEqual
<1>1. Init => ClipboardInv
  <2>1. Init => latest = None
    BY DEF Init
  <2> QED
    BY <2>1, EchoInit DEF CopyOK, ClipboardInv
<1>2. ClipboardInv /\ [Next]_vars => ClipboardInv'
  BY EchoInductive, CopyInductive DEF ClipboardInv
<1>3. ClipboardInv => QuietMeansEqual
  <2> SUFFICES ASSUME ClipboardInv, Quiet, ~disturbed, latest # None, NEW d \in Devices
               PROVE  ReadBack(d, clip[d]) = latest
    BY DEF QuietMeansEqual
  <2>1. ASSUME NEW o \in Devices PROVE ~Unsent(o)
    BY DEF Quiet, Unsent
  <2>2. After
    BY <2>1 DEF ClipboardInv, CopyOK, Before
  <2>3. ~Coming(d)
    BY DEF Quiet, Coming
  <2> QED
    BY <2>2, <2>3 DEF After, Arrived
<1> QED
  BY <1>1, <1>2, <1>3, PTL DEF Spec

=============================================================================
