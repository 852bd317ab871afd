---------------------------- MODULE TimingsProofs ----------------------------
(* The theorems of Timings.tla, for any times and any number of windows.     *)
EXTENDS Timings, TLAPS

Places == {"admission", "respond", "reported"} \cup Stages

TimingsType ==
    /\ at \in Places
    /\ now \in Nat /\ begun \in Nat /\ mark \in Nat
    /\ dur \in [Stages -> Nat]
    /\ recorded \subseteq Stages /\ ran \subseteq Stages
    /\ audio \in {-1, 0, 1} /\ parts \in Nat
    /\ ok \in BOOLEAN /\ rtf \in BOOLEAN

Inferring == at \in Inner \cup {"inference"}

Over == at \in {"respond", "reported"}

\* The outer stages that are over fit before the one that runs began, and the
\* inner ones into the time since; before inference there are none.
Nested ==
    /\ begun <= now
    /\ OuterTime <= IF Over THEN now ELSE begun
    /\ at \in {"admission", "upload", "probe", "convert"} =>
          InnerTime = 0 /\ dur["inference"] = 0
    /\ Inferring => /\ dur["inference"] = 0
                    /\ InnerTime <= IF at \in Inner THEN mark - begun ELSE now - begun
    /\ at \in Inner => begun <= mark /\ mark <= now
    /\ at = "cleanup" \/ Over => InnerTime <= dur["inference"]

\* The stages that run now.
Current == IF at \in Inner THEN {at, "inference"} ELSE Stages \cap {at}

\* What has been measured is what was begun and is over; without an error, these
\* are all the stages before this one.
Counted ==
    /\ ran = recorded \cup Current
    /\ ok => /\ at = "probe" => {"upload"} \subseteq recorded
             /\ at = "convert" => {"upload", "probe"} \subseteq recorded
             /\ Inferring => {"upload", "probe", "convert"} \subseteq recorded
             /\ at = "cleanup" => Outer \ {"cleanup"} \subseteq recorded
             /\ Over => Outer \subseteq recorded
    /\ rtf => at = "reported" /\ ok /\ audio > 0

TimingsInv == TimingsType /\ Nested /\ Counted

LEMMA TimingsStarted == TimingsInit => TimingsInv
  <1> SUFFICES ASSUME TimingsInit PROVE TimingsInv
    OBVIOUS
  <1> USE DEF Stages, Inner, Outer
  <1>1. TimingsType
    <2>1. dur \in [Stages -> Nat]
      BY DEF TimingsInit
    <2>2. at \in Places
      BY DEF TimingsInit, Places
    <2> HIDE DEF Stages
    <2>3. audio \in {-1, 0, 1}
      BY DEF TimingsInit
    <2>4. recorded \subseteq Stages /\ ran \subseteq Stages
      BY DEF TimingsInit
    <2>5. ok \in BOOLEAN /\ rtf \in BOOLEAN
      BY DEF TimingsInit
    <2> QED BY <2>1, <2>2, <2>3, <2>4, <2>5 DEF TimingsInit, TimingsType
  <1>2. InnerTime = 0 /\ OuterTime = 0 /\ dur["inference"] = 0
    BY DEF TimingsInit, InnerTime, OuterTime
  <1>3. Nested
    BY <1>2 DEF TimingsInit, Nested, Inferring, Over
  <1>4. Counted
    BY DEF TimingsInit, Counted, Current, Inferring, Over
  <1> QED BY <1>1, <1>3, <1>4 DEF TimingsInv

\* A measurement adds its time to its own stage only.
LEMMA AddedUp ==
  ASSUME TimingsType, NEW s \in Stages, NEW d \in Nat, AddDuration(s, d)
  PROVE  /\ dur' \in [Stages -> Nat] /\ recorded' \subseteq Stages
         /\ recorded' = recorded \cup {s}
         /\ InnerTime' = InnerTime + (IF s \in Inner THEN d ELSE 0)
         /\ OuterTime' = OuterTime + (IF s \in Outer THEN d ELSE 0)
         /\ dur'["inference"] = dur["inference"] + (IF s = "inference" THEN d ELSE 0)
  <1>1. /\ dur' \in [Stages -> Nat] /\ recorded' \subseteq Stages
        /\ recorded' = recorded \cup {s}
    BY DEF AddDuration, TimingsType
  <1>2. \A r \in Stages : /\ dur[r] \in Nat
                          /\ dur'[r] = IF r = s THEN dur[r] + d ELSE dur[r]
    BY DEF AddDuration, TimingsType
  <1> DEFINE Adds(r) == dur[r] \in Nat /\ dur'[r] = IF r = s THEN dur[r] + d ELSE dur[r]
  <1>3. /\ Adds("upload") /\ Adds("probe") /\ Adds("convert") /\ Adds("inference") /\ Adds("cleanup")
        /\ Adds("vad") /\ Adds("frontend") /\ Adds("encoder") /\ Adds("decoder")
    BY <1>2 DEF Stages, Outer, Inner
  <1>4. \/ s = "upload" \/ s = "probe" \/ s = "convert" \/ s = "inference" \/ s = "cleanup"
        \/ s = "vad" \/ s = "frontend" \/ s = "encoder" \/ s = "decoder"
    BY DEF Stages, Outer, Inner
  <1>5. InnerTime' = InnerTime + (IF s \in Inner THEN d ELSE 0)
    BY <1>3, <1>4 DEF InnerTime, Inner
  <1>6. OuterTime' = OuterTime + (IF s \in Outer THEN d ELSE 0)
    BY <1>3, <1>4 DEF OuterTime, Outer
  <1> QED BY <1>1, <1>3, <1>5, <1>6


LEMMA TimesNatural ==
  ASSUME TimingsType
  PROVE  InnerTime \in Nat /\ OuterTime \in Nat /\ dur["inference"] \in Nat
  BY DEF InnerTime, OuterTime, TimingsType, Stages, Inner, Outer

LEMMA ClockGoesOn ==
  ASSUME TimingsType, Pass
  PROVE  \E d \in Nat : now' = now + d
  BY TimingsAssumption DEF Pass, TimingsType

LEMMA MeasuredKeeps ==
  ASSUME Measured
  PROVE  /\ dur' = dur /\ recorded' = recorded
         /\ InnerTime' = InnerTime /\ OuterTime' = OuterTime
  BY DEF Measured, InnerTime, OuterTime

\* An outer stage is over and the next one, or the cleanup, begins.
LEMMA OuterEnds ==
  ASSUME TimingsInv, NEW s \in Outer \ {"cleanup"}, NEW n \in Outer \ {"upload"},
         at = s, Pass, Finish(s), Begin(n), audio' \in {-1, 0, 1}, UNCHANGED <<parts, rtf>>,
         \/ n = "cleanup" /\ ok' = FALSE
         \/ /\ ok' = ok
            /\ \/ s = "upload" /\ n = "probe"
               \/ s = "probe" /\ n = "convert"
               \/ s = "convert" /\ n = "inference"
               \/ s = "inference" /\ n = "cleanup"
  PROVE  TimingsInv'
  <1>1. TimingsType /\ Nested /\ Counted
    BY DEF TimingsInv
  <1>0. PICK d \in Nat : now' = now + d
    BY <1>1, ClockGoesOn
  <1>2. /\ now' = now + d /\ now \in Nat /\ begun \in Nat /\ begun <= now
        /\ InnerTime \in Nat /\ OuterTime \in Nat /\ dur["inference"] \in Nat
    BY <1>0, <1>1, TimesNatural DEF TimingsType, Nested
  <1>3. now' - begun \in Nat
    BY <1>2
  <1>4. s \in Stages /\ n \in Stages /\ s \notin Inner /\ n \notin Inner
    BY DEF Stages, Outer, Inner
  <1>5. /\ dur' \in [Stages -> Nat] /\ recorded' \subseteq Stages
        /\ recorded' = recorded \cup {s}
        /\ InnerTime' = InnerTime
        /\ OuterTime' = OuterTime + (now' - begun)
        /\ dur'["inference"] = dur["inference"] + (IF s = "inference" THEN now' - begun ELSE 0)
    BY <1>1, <1>2, <1>3, <1>4, AddedUp DEF Finish
  <1>6. at' = n /\ ran' = ran \cup {n} /\ begun' = now' /\ mark' = mark
    BY DEF Begin
  <1>7. TimingsType'
    <2>1. at' \in Places
      BY <1>4, <1>6 DEF Places
    <2>2. ran' \subseteq Stages
      BY <1>1, <1>4, <1>6 DEF TimingsType
    <2>3. ok' \in BOOLEAN /\ rtf' \in BOOLEAN
      BY <1>1 DEF TimingsType
    <2> QED BY <1>1, <1>2, <1>5, <1>6, <2>1, <2>2, <2>3 DEF TimingsType
  <1>8. Nested'
    <2>1. OuterTime <= begun
      BY <1>1, <1>4 DEF Nested, Over, Outer
    <2>2. OuterTime' <= begun' /\ begun' <= now'
      BY <1>2, <1>5, <1>6, <2>1
    <2>3. s # "inference" => InnerTime = 0 /\ dur["inference"] = 0
      BY <1>1 DEF Nested, Outer
    <2>4. s = "inference" => InnerTime <= now - begun /\ dur["inference"] = 0
      BY <1>1 DEF Nested, Inferring, Inner
    <2>5. n # "cleanup" => s # "inference"
      OBVIOUS
    <2>6. InnerTime' <= dur'["inference"]
      BY <1>2, <1>5, <2>3, <2>4
    <2>7. n # "cleanup" => InnerTime' = 0 /\ dur'["inference"] = 0
      BY <1>2, <1>5, <2>3, <2>5
    <2>8. n = "inference" => InnerTime' <= now' - begun'
      BY <1>2, <1>6, <2>7
    <2>9. ~Over'
      BY <1>6 DEF Over, Outer
    <2> QED BY <1>4, <1>6, <2>2, <2>6, <2>7, <2>8, <2>9 DEF Nested, Inferring
  <1>9. Counted'
    <2>1. ran = recorded \cup {s}
      BY <1>1, <1>4 DEF Counted, Current
    <2>2. Current' = {n}
      BY <1>4, <1>6 DEF Current
    <2>3. ran' = recorded' \cup Current'
      BY <1>5, <1>6, <2>1, <2>2
    <2>4. ~rtf'
      BY <1>1 DEF Counted, Outer
    <2>5. ASSUME ok'
          PROVE  /\ n = "probe" => {"upload"} \subseteq recorded'
                 /\ n = "convert" => {"upload", "probe"} \subseteq recorded'
                 /\ n = "inference" => {"upload", "probe", "convert"} \subseteq recorded'
                 /\ n = "cleanup" => Outer \ {"cleanup"} \subseteq recorded'
      BY <1>1, <1>5, <2>5 DEF Counted, Inferring, Outer
    <2>6. ~Over' /\ (Inferring' => n = "inference")
      BY <1>4, <1>6 DEF Over, Outer, Inferring
    <2> QED BY <1>6, <2>3, <2>4, <2>5, <2>6 DEF Counted
  <1> QED BY <1>7, <1>8, <1>9 DEF TimingsInv

\* A stage inside inference is over.
LEMMA InnerEnds ==
  ASSUME TimingsInv, NEW s \in Inner, NEW n \in Inner \cup {"inference"},
         at = s, Pass, Measure(s), at' = n, ran' = ran \cup {n},
         UNCHANGED <<ok, audio, parts, rtf>>
  PROVE  TimingsInv'
  <1>1. TimingsType /\ Nested /\ Counted
    BY DEF TimingsInv
  <1>0. PICK d \in Nat : now' = now + d
    BY <1>1, ClockGoesOn
  <1>2. /\ now' = now + d /\ now \in Nat /\ begun \in Nat /\ mark \in Nat
        /\ begun <= mark /\ mark <= now
        /\ InnerTime \in Nat /\ OuterTime \in Nat /\ dur["inference"] \in Nat
    BY <1>0, <1>1, TimesNatural DEF TimingsType, Nested
  <1>3. now' - mark \in Nat
    BY <1>2
  <1>4. s \in Stages /\ n \in Stages /\ s \notin Outer /\ s # "inference"
    BY DEF Stages, Outer, Inner
  <1>5. /\ dur' \in [Stages -> Nat] /\ recorded' \subseteq Stages
        /\ recorded' = recorded \cup {s}
        /\ InnerTime' = InnerTime + (now' - mark)
        /\ OuterTime' = OuterTime
        /\ dur'["inference"] = dur["inference"]
    BY <1>1, <1>2, <1>3, <1>4, AddedUp DEF Measure
  <1>6. mark' = now' /\ begun' = begun
    BY DEF Measure
  <1>7. Inferring /\ Inferring' /\ ~Over /\ ~Over' /\ at' # "cleanup"
        /\ at' \notin {"admission", "upload", "probe", "convert"}
    BY DEF Inferring, Over, Inner
  <1>8. TimingsType'
    <2>1. at' \in Places
      BY <1>4 DEF Places
    <2>2. ran' \subseteq Stages
      BY <1>1, <1>4 DEF TimingsType
    <2> QED BY <1>1, <1>2, <1>5, <1>6, <2>1, <2>2 DEF TimingsType
  <1>9. Nested'
    <2>1. OuterTime <= begun /\ InnerTime <= mark - begun /\ dur["inference"] = 0
      BY <1>1, <1>7 DEF Nested
    <2>2. InnerTime' <= now' - begun'
      BY <1>2, <1>5, <1>6, <2>1
    <2> QED BY <1>2, <1>5, <1>6, <1>7, <2>1, <2>2 DEF Nested
  <1>10. Counted'
    <2>1. ran = recorded \cup {s, "inference"}
      BY <1>1 DEF Counted, Current
    <2>2. Current' = {n, "inference"}
      BY <1>4 DEF Current, Stages
    <2>3. ran' = recorded' \cup Current'
      BY <1>5, <2>1, <2>2
    <2>4. ~rtf'
      BY <1>1 DEF Counted, Inner
    <2>5. ok' => {"upload", "probe", "convert"} \subseteq recorded'
      BY <1>1, <1>5, <1>7 DEF Counted
    <2> QED BY <1>7, <2>3, <2>4, <2>5 DEF Counted
  <1> QED BY <1>8, <1>9, <1>10 DEF TimingsInv

LEMMA TimingsSteps ==
  ASSUME TimingsInv, [TimingsNext]_timingsVars
  PROVE  TimingsInv'
  <1>1. TimingsType /\ Nested /\ Counted
    BY DEF TimingsInv
  <1>2. ASSUME Pass
        PROVE  \E d \in Nat : now' = now + d
    BY <1>1, <1>2, ClockGoesOn
  <1>3. /\ now \in Nat /\ begun \in Nat /\ mark \in Nat /\ begun <= now
        /\ InnerTime \in Nat /\ OuterTime \in Nat /\ dur["inference"] \in Nat
    BY <1>1, TimesNatural DEF TimingsType, Nested
  <1>4. CASE Refused
    <2>1. PICK d \in Nat : now' = now + d
      BY <1>2, <1>4 DEF Refused
    <2>2. /\ at = "admission" /\ at' = "respond" /\ ok' = FALSE
          /\ dur' = dur /\ recorded' = recorded /\ InnerTime' = InnerTime /\ OuterTime' = OuterTime
          /\ UNCHANGED <<audio, parts, rtf, begun, mark, ran>>
      BY <1>4, MeasuredKeeps DEF Refused, Untouched
    <2>3. TimingsType'
      <3>1. at' \in Places /\ now' \in Nat
        BY <1>3, <2>1, <2>2 DEF Places
      <3>2. ok' \in BOOLEAN
        BY <2>2
      <3> QED BY <1>1, <2>2, <3>1, <3>2 DEF TimingsType
    <2>4. Nested'
      <3>1. OuterTime <= begun /\ InnerTime = 0 /\ dur["inference"] = 0
        BY <1>1, <2>2 DEF Nested, Over
      <3>2. OuterTime' <= now' /\ begun' <= now' /\ InnerTime' <= dur'["inference"]
        BY <1>3, <2>1, <2>2, <3>1
      <3> QED BY <2>2, <3>2 DEF Nested, Over, Inferring, Inner
    <2>5. Counted'
      BY <1>1, <2>2 DEF Counted, Current, Stages, Outer, Inner
    <2> QED BY <2>3, <2>4, <2>5 DEF TimingsInv
  <1>5. CASE Admitted
    <2>1. PICK d \in Nat : now' = now + d
      BY <1>2, <1>5 DEF Admitted
    <2>2. /\ at = "admission" /\ at' = "upload" /\ ok' = ok
          /\ ran' = ran \cup {"upload"} /\ begun' = now' /\ mark' = mark
          /\ dur' = dur /\ recorded' = recorded /\ InnerTime' = InnerTime /\ OuterTime' = OuterTime
          /\ UNCHANGED <<audio, parts, rtf>>
      BY <1>5, MeasuredKeeps DEF Admitted, GoesOn, Begin, Untouched, Outer
    <2>3. TimingsType'
      <3>1. at' \in Places /\ "upload" \in Stages
        BY <2>2 DEF Places, Stages, Outer
      <3>2. ran' \subseteq Stages /\ ok' \in BOOLEAN
        BY <1>1, <2>2, <3>1 DEF TimingsType
      <3>3. now' \in Nat /\ begun' \in Nat
        BY <1>3, <2>1, <2>2
      <3> QED BY <1>1, <2>2, <3>1, <3>2, <3>3 DEF TimingsType
    <2>4. Nested'
      <3>1. OuterTime <= begun /\ InnerTime = 0 /\ dur["inference"] = 0
        BY <1>1, <2>2 DEF Nested, Over
      <3>2. OuterTime' <= begun' /\ begun' <= now' /\ InnerTime' = 0 /\ dur'["inference"] = 0
        BY <1>3, <2>1, <2>2, <3>1
      <3> QED BY <2>2, <3>2 DEF Nested, Over, Inferring, Inner
    <2>5. Counted'
      <3>1. ran = recorded
        BY <1>1, <2>2 DEF Counted, Current, Stages, Outer, Inner
      <3>2. Current' = {"upload"}
        BY <2>2 DEF Current, Stages, Outer, Inner
      <3>3. ~rtf'
        BY <1>1, <2>2 DEF Counted
      <3> QED BY <2>2, <3>1, <3>2, <3>3 DEF Counted, Inferring, Over, Inner
    <2> QED BY <2>3, <2>4, <2>5 DEF TimingsInv
  <1>6. CASE Upload \/ Probe \/ Convert \/ EndScan
    <2>1. PICK s \in Outer \ {"cleanup"}, n \in Outer \ {"upload"} :
             /\ at = s /\ Pass /\ Finish(s) /\ Begin(n)
             /\ \/ n = "cleanup" /\ ok' = FALSE
                \/ /\ ok' = ok
                   /\ \/ s = "upload" /\ n = "probe"
                      \/ s = "probe" /\ n = "convert"
                      \/ s = "convert" /\ n = "inference"
                      \/ s = "inference" /\ n = "cleanup"
      <3>1. CASE Upload
        BY <3>1 DEF Upload, GoesOn, Fails, Outer
      <3>2. CASE Probe
        BY <3>2 DEF Probe, GoesOn, Fails, Outer
      <3>3. CASE Convert
        BY <3>3 DEF Convert, GoesOn, Fails, Outer
      <3>4. CASE EndScan
        BY <3>4 DEF EndScan, Inferred, GoesOn, Fails, Outer
      <3> QED BY <1>6, <3>1, <3>2, <3>3, <3>4
    <2>2. audio' \in {-1, 0, 1}
      <3>1. CASE Convert
        <4>1. audio' \in 0..1 \/ audio' = audio
          BY <3>1 DEF Convert
        <4> QED BY <4>1, <1>1 DEF TimingsType
      <3>2. CASE Upload \/ Probe \/ EndScan
        BY <3>2, <1>1 DEF Upload, Probe, EndScan, Untouched, TimingsType
      <3> QED BY <1>6, <3>1, <3>2
    <2>3. UNCHANGED <<parts, rtf>>
      BY <1>6 DEF Upload, Probe, Convert, EndScan, Untouched
    <2> QED BY <2>1, <2>2, <2>3, OuterEnds
  <1>7. CASE Cleanup
    <2>1. PICK d \in Nat : now' = now + d
      BY <1>2, <1>7 DEF Cleanup
    <2>2. /\ at = "cleanup" /\ at' = "respond" /\ ok' \in {ok, FALSE} /\ Finish("cleanup")
          /\ UNCHANGED <<audio, parts, rtf, begun, mark, ran>>
      BY <1>7 DEF Cleanup, Untouched
    <2>3. now' - begun \in Nat
      BY <1>3, <2>1
    <2>4. "cleanup" \in Stages /\ "cleanup" \notin Inner /\ "cleanup" \in Outer
      BY DEF Stages, Outer, Inner
    <2>5. /\ dur' \in [Stages -> Nat] /\ recorded' \subseteq Stages
          /\ recorded' = recorded \cup {"cleanup"}
          /\ InnerTime' = InnerTime
          /\ OuterTime' = OuterTime + (now' - begun)
          /\ dur'["inference"] = dur["inference"]
      BY <1>1, <1>3, <2>2, <2>3, <2>4, AddedUp DEF Finish
    <2>6. TimingsType'
      <3>1. at' \in Places /\ now' \in Nat
        BY <1>3, <2>1, <2>2 DEF Places
      <3>2. ok' \in BOOLEAN
        BY <1>1, <2>2 DEF TimingsType
      <3> QED BY <1>1, <2>2, <2>5, <3>1, <3>2 DEF TimingsType
    <2>7. Nested'
      <3>1. OuterTime <= begun /\ InnerTime <= dur["inference"]
        BY <1>1, <2>2 DEF Nested, Over
      <3>2. OuterTime' <= now' /\ begun' <= now' /\ InnerTime' <= dur'["inference"]
        BY <1>3, <2>1, <2>2, <2>5, <3>1
      <3> QED BY <2>2, <3>2 DEF Nested, Over, Inferring, Inner
    <2>8. Counted'
      <3>1. ran = recorded \cup {"cleanup"}
        BY <1>1, <2>2, <2>4 DEF Counted, Current
      <3>2. Current' = {}
        BY <2>2 DEF Current, Stages, Outer, Inner
      <3>3. ok' => Outer \subseteq recorded'
        BY <1>1, <2>2, <2>5 DEF Counted
      <3>4. ~rtf'
        BY <1>1, <2>2 DEF Counted
      <3> QED BY <2>2, <2>5, <3>1, <3>2, <3>3, <3>4 DEF Counted, Inferring, Over, Inner
    <2> QED BY <2>6, <2>7, <2>8 DEF TimingsInv
  <1>8. CASE Complete
    <2>1. /\ at = "respond" /\ at' = "reported" /\ rtf' = (audio > 0 /\ ok)
          /\ UNCHANGED <<now, begun, mark, dur, recorded, audio, parts, ok, ran>>
      BY <1>8 DEF Complete, Rated
    <2>2. TimingsType'
      BY <1>1, <2>1 DEF TimingsType, Places
    <2>3. Nested'
      BY <1>1, <2>1 DEF Nested, Over, Inferring, Inner, InnerTime, OuterTime
    <2>4. Counted'
      <3>1. Current = {} /\ Current' = {}
        BY <2>1 DEF Current, Stages, Outer, Inner
      <3>2. rtf' => at' = "reported" /\ ok' /\ audio' > 0
        BY <2>1
      <3> QED BY <1>1, <2>1, <3>1, <3>2 DEF Counted, Inferring, Over, Inner
    <2> QED BY <2>2, <2>3, <2>4 DEF TimingsInv
  <1>9. CASE NextPart
    <2>1. PICK d \in Nat : now' = now + d
      BY <1>2, <1>9 DEF NextPart
    <2>2. PICK s \in {"vad", "frontend"} :
             /\ at = "inference" /\ at' = s /\ ran' = ran \cup {s} /\ mark' = now'
             /\ dur' = dur /\ recorded' = recorded /\ InnerTime' = InnerTime /\ OuterTime' = OuterTime
             /\ parts' = parts + 1 /\ UNCHANGED <<begun, ok, audio, rtf>>
      BY <1>9, MeasuredKeeps DEF NextPart, InnerBegins
    <2>3. s \in Inner /\ s \in Stages
      BY DEF Inner, Stages
    <2>4. TimingsType'
      BY <1>1, <1>3, <2>1, <2>2, <2>3 DEF TimingsType, Places
    <2>5. Nested'
      <3>1. OuterTime <= begun /\ InnerTime <= now - begun /\ dur["inference"] = 0
        BY <1>1, <2>2 DEF Nested, Over, Inferring, Inner
      <3>2. /\ OuterTime' <= begun' /\ begun' <= mark' /\ mark' <= now'
            /\ InnerTime' <= mark' - begun'
        BY <1>3, <2>1, <2>2, <3>1
      <3>3. begun' <= now'
        BY <1>3, <2>1, <2>2
      <3> QED BY <2>2, <2>3, <3>1, <3>2, <3>3 DEF Nested, Over
    <2>6. Counted'
      <3>1. ran = recorded \cup {"inference"}
        BY <1>1, <2>2 DEF Counted, Current, Stages, Outer, Inner
      <3>2. Current' = {s, "inference"}
        BY <2>2, <2>3 DEF Current
      <3>3. ok' => {"upload", "probe", "convert"} \subseteq recorded'
        BY <1>1, <2>2 DEF Counted, Inferring
      <3>4. ~rtf'
        BY <1>1, <2>2 DEF Counted
      <3> QED BY <2>2, <3>1, <3>2, <3>3, <3>4 DEF Counted, Over
    <2> QED BY <2>4, <2>5, <2>6 DEF TimingsInv
  <1>10. CASE Vad \/ Frontend \/ Encoder \/ Decoding
    <2>1. PICK s \in Inner, n \in Inner \cup {"inference"} :
             /\ at = s /\ Pass /\ Measure(s) /\ at' = n
             /\ (n = "inference" /\ ran' = ran) \/ ran' = ran \cup {n}
             /\ UNCHANGED <<ok, audio, parts, rtf>>
      BY <1>10 DEF Vad, Frontend, Encoder, Decoding, InnerBegins, Untouched, Inner
    <2>2. "inference" \in ran
      BY <2>1, <1>1 DEF Counted, Current
    <2>3. ran' = ran \cup {n}
      BY <2>1, <2>2
    <2> QED BY <2>1, <2>3, InnerEnds
  <1>11. CASE UNCHANGED timingsVars
    BY <1>11, <1>1 DEF timingsVars, TimingsInv, TimingsType, Nested, Counted, InnerTime, OuterTime,
       Inferring, Over, Current
  <1> QED BY <1>4, <1>5, <1>6, <1>7, <1>8, <1>9, <1>10, <1>11 DEF TimingsNext

THEOREM TimingsInvariance == TimingsSpec => []TimingsInv
  BY TimingsStarted, TimingsSteps, PTL DEF TimingsSpec

\* Nothing is counted twice: the stages inside inference fit into its time, and
\* the outer ones into the request's, however long each takes and whatever fails.
THEOREM NothingCountedTwice == TimingsSpec => []TimesNest
  <1>1. TimingsInv => TimesNest
    BY DEF TimingsInv, Nested, TimesNest, Over
  <1> QED BY <1>1, TimingsInvariance, PTL

\* The summary of every request, failed or not, has the stages that were begun,
\* and a real-time factor only where there is audio to divide by.
THEOREM SummaryComplete == TimingsSpec => []ReportComplete
  <1>1. ASSUME TimingsInv PROVE ReportComplete
    <2>1. CASE at = "reported"
      <3>1. Current = {}
        BY <2>1 DEF Current, Stages, Outer, Inner
      <3> QED BY <1>1, <2>1, <3>1 DEF TimingsInv, Counted, ReportComplete, Over
    <2> QED BY <2>1 DEF ReportComplete
  <1> QED BY <1>1, TimingsInvariance, PTL
=============================================================================
