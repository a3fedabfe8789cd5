------------------------- MODULE OutsideServices_proofs -------------------------
(***************************************************************************)
(* Proofs about what Pilot Core does with the services around it, for all    *)
(* their constants: one section for each component, with the invariant that  *)
(* its steps keep, and at the end the theorems about ServicesSpec, in which  *)
(* a component that is not the one a behaviour is about rests.               *)
(***************************************************************************)
EXTENDS OutsideServices, FiniteSetTheorems, WellFoundedInduction, NaturalsInduction,
        SequenceTheorems, TLAPS

-----------------------------------------------------------------------------
(* The firmware of a display node (pilot_client.cpp).                       *)

\* Outside the boot loader a node is to start what it runs, until it has chosen
\* an update; from the offer to the restart what it runs is settled.
Settling ==
  /\ slots[running] # Partial
  /\ node = "loaded" => /\ boot = Other(running) /\ state[boot] = "new"
                        /\ slots[boot] # Partial
  /\ node # "loaded" => boot = running
  /\ node # "idle" => state[running] = "valid"

\* What a node goes by is newer than what it runs.
Offered ==
  node \in {"offered", "loading"} =>
    /\ latest # Partial /\ offer # Partial
    /\ Newer(offer.version, slots[running].version)

FirmwareInv == TypeOK /\ Settling /\ Offered /\ AlwaysBootable

LEMMA FactoryIsImage == ConstantsFit => Factory \in Images /\ Factory # Partial
<1> SUFFICES ASSUME ConstantsFit PROVE Factory \in Images /\ Factory # Partial
  OBVIOUS
<1> DEFINE v == CHOOSE v \in Versions : \A w \in Versions : v <= w
           b == CHOOSE b \in Builds : TRUE
<1>1. v \in Versions
  BY DEF ConstantsFit
<1>2. b \in Builds /\ b # None
  BY DEF ConstantsFit
<1>3. Factory = [version |-> v, build |-> b]
  BY DEF Factory, Image
<1> HIDE DEF v, b
<1> QED
  BY <1>1, <1>2, <1>3 DEF Images, Partial

LEMMA FirmwareInit == ConstantsFit /\ Init => FirmwareInv
<1> SUFFICES ASSUME ConstantsFit, Init PROVE FirmwareInv
  OBVIOUS
<1>1. Factory \in Images /\ Factory # Partial
  BY FactoryIsImage
<1>2. TypeOK
  BY <1>1 DEF ConstantsFit, Init, TypeOK, Slots
<1>3. Settling /\ Offered /\ AlwaysBootable
  BY <1>1 DEF Init, Settling, Offered, AlwaysBootable, Slots, Other
<1> QED
  BY <1>2, <1>3 DEF FirmwareInv

\* The two slots are each other's other.
LEMMA OtherSlot ==
  ASSUME NEW s \in Slots
  PROVE  Other(s) \in Slots /\ Other(s) # s /\ Other(Other(s)) = s
  BY DEF Slots, Other

\* What the boot loader does to a node on which Settling holds.
LEMMA Booting ==
  ASSUME TypeOK, Settling, AlwaysBootable, Started, UNCHANGED slots
  PROVE  /\ boot' \in Slots /\ running' = boot'
         /\ state' \in [Slots -> {"valid", "new", "verify", "aborted"}]
         /\ slots[boot'] # Partial
         /\ AlwaysBootable'
<1> USE OtherSlot DEF TypeOK, AlwaysBootable
<1>1. CASE state[boot] = "new"
  BY <1>1 DEF Started
<1>2. CASE state[boot] = "verify"
  BY <1>2 DEF Started
<1>3. CASE state[boot] \notin {"new", "verify"}
  BY <1>3 DEF Started
<1> QED
  BY <1>1, <1>2, <1>3

LEMMA FirmwareKept == ConstantsFit /\ FirmwareInv /\ [Next]_vars => FirmwareInv'
<1> SUFFICES ASSUME ConstantsFit, FirmwareInv, [Next]_vars PROVE FirmwareInv'
  OBVIOUS
<1> USE DEF FirmwareInv, TypeOK, ConstantsFit, server, device
<1>1. Partial \notin Images
  BY DEF Partial, Images
<1>2. running \in Slots /\ Other(running) \in Slots /\ Other(running) # running
      /\ Other(Other(running)) = running
  BY OtherSlot
<1>3. ASSUME NEW i \in Images, PublishImage(i) PROVE FirmwareInv'
  <2>1. files' \in [Versions -> Images \cup {Partial}] /\ published' \in 0..MaxPublished
    BY <1>3 DEF PublishImage, Images
  <2> QED
    BY <1>3, <2>1 DEF PublishImage, Settling, Offered, AlwaysBootable
<1>4. CASE PublishManifest
  BY <1>4 DEF PublishManifest, Settling, Offered, AlwaysBootable
<1>5. CASE PublishBreaksOff
  BY <1>5 DEF PublishBreaksOff, Settling, Offered, AlwaysBootable
<1>6. CASE CheckForUpdate
  BY <1>6 DEF CheckForUpdate, UpdateAvailable, Released, Settled, Settling, Offered,
     AlwaysBootable
<1>7. CASE LoadImage
  <2>1. latest \in Images /\ Served \in Images \cup {Partial}
    BY <1>7 DEF LoadImage, Released, Served, Offered, Images
  <2>2. boot = running /\ state[running] = "valid"
    BY <1>7 DEF LoadImage, Settling
  <2>3. slots'[running] = slots[running] /\ state'[running] = state[running]
    BY <1>2, <1>7 DEF LoadImage
  <2> QED
    BY <1>2, <1>7, <2>1, <2>2, <2>3 DEF LoadImage, Settling, Offered, AlwaysBootable
<1>8. CASE Installed
  <2>1. boot = running /\ state[running] = "valid" /\ offer # Partial
    BY <1>8 DEF Installed, Settling, Offered
  <2>2. CASE Verified
    <3>1. /\ boot' = Other(running) /\ running' = running /\ node' = "loaded"
          /\ slots'[boot'] = offer /\ slots'[running] = slots[running]
          /\ state'[boot'] = "new" /\ state'[running] = "valid"
      BY <1>2, <1>8, <2>1, <2>2 DEF Installed, Verified
    <3>2. TypeOK'
      BY <1>2, <1>8, <2>2 DEF Installed
    <3> QED
      BY <1>2, <2>1, <3>1, <3>2 DEF Settling, Offered, AlwaysBootable
  <2>3. CASE ~Verified
    BY <1>8, <2>1, <2>3 DEF Installed, Settling, Offered, AlwaysBootable
  <2> QED
    BY <2>2, <2>3
<1>9. CASE LoadFails
  BY <1>9 DEF LoadFails, Settling, Offered, AlwaysBootable
<1>10. CASE Restart
  <2>1. /\ boot' \in Slots /\ running' = boot' /\ slots[boot'] # Partial /\ AlwaysBootable'
        /\ state' \in [Slots -> {"valid", "new", "verify", "aborted"}]
    BY <1>10, Booting DEF Restart, Reset
  <2> QED
    BY <1>10, <2>1 DEF Restart, Reset, Settling, Offered
<1>11. CASE Crash
  <2>1. /\ boot' \in Slots /\ running' = boot' /\ slots[boot'] # Partial /\ AlwaysBootable'
        /\ state' \in [Slots -> {"valid", "new", "verify", "aborted"}]
    BY <1>11, Booting DEF Crash, Reset
  <2> QED
    BY <1>11, <2>1 DEF Crash, Reset, Settling, Offered
<1>12. CASE MarkValid
  BY <1>2, <1>12 DEF MarkValid, Settling, Offered, AlwaysBootable
<1>13. CASE UNCHANGED vars
  BY <1>13 DEF vars, Settling, Offered, AlwaysBootable
<1> QED
  BY <1>3, <1>4, <1>5, <1>6, <1>7, <1>8, <1>9, <1>10, <1>11, <1>12, <1>13 DEF Next

-----------------------------------------------------------------------------
(* The focus of a voice satellite (assist_focus.py).                        *)

\* The flags a satellite's state asks for.
Meant(s) ==
  (IF s \in Focus!Hearing THEN {"listening"} ELSE {})
    \cup (IF s = "responding" THEN {"speaking"} ELSE {})

\* All commands that are on their way, the next to be executed first.
Coming == (line \o waiting) \o todo

\* The last command for a flag, or that there is none.
LastIs(commands, flag, on) ==
  \E i \in 1..Len(commands) :
    /\ commands[i].flag = flag /\ commands[i].on = on
    /\ \A j \in 1..Len(commands) : j > i => commands[j].flag # flag
NoneFor(commands, flag) == \A i \in 1..Len(commands) : commands[i].flag # flag

\* What the bridge has noted, or is about to, is the satellite's state.
Told ==
  IF news = << >> THEN Meant(satellite) = Meant(noted) ELSE satellite = news[Len(news)]

\* Each flag is, or will be, what the noted state asks for.
Following ==
  \A f \in Focus!FlagNames :
    \/ LastIs(Coming, f, f \in Meant(noted))
    \/ /\ NoneFor(Coming, f)
       /\ f \in flags => f \in Meant(noted)
       /\ f \in Meant(noted) => f \in flags \cup lapsed

FocusInv == Focus!TypeOK /\ (lost \/ (Told /\ Following))

-----------------------------------------------------------------------------
(* What is on its way.                                                     *)

LEMMA QueuesAre ==
  ASSUME Focus!TypeOK
  PROVE  /\ line \in Seq(Focus!Commands) /\ waiting \in Seq(Focus!Commands)
         /\ todo \in Seq(Focus!Commands)
         /\ Coming \in Seq(Focus!Commands) /\ line \o waiting \in Seq(Focus!Commands)
<1>1. /\ line \in Seq(Focus!Commands) /\ waiting \in Seq(Focus!Commands)
      /\ todo \in Seq(Focus!Commands)
  BY DEF Focus!TypeOK
<1>2. line \o waiting \in Seq(Focus!Commands)
  BY <1>1, ConcatProperties
<1> QED
  BY <1>1, <1>2, ConcatProperties DEF Coming

\* One more command is taken from the front of a queue to the end of the one before.
LEMMA HandedOn ==
  ASSUME NEW s \in Seq(Focus!Commands), NEW t \in Seq(Focus!Commands), t # << >>
  PROVE  /\ Append(s, Head(t)) \o Tail(t) = s \o t
         /\ Append(s, Head(t)) \in Seq(Focus!Commands) /\ Tail(t) \in Seq(Focus!Commands)
<1>1. Head(t) \in Focus!Commands /\ Tail(t) \in Seq(Focus!Commands) /\ Len(Tail(t)) = Len(t) - 1
      /\ Len(t) \in Nat \ {0}
      /\ \A i \in 1..Len(Tail(t)) : Tail(t)[i] = t[i + 1]
      /\ Head(t) = t[1]
  BY HeadTailProperties, EmptySeq
<1> DEFINE a == Append(s, Head(t))
<1>2. /\ a \in Seq(Focus!Commands) /\ Len(a) = Len(s) + 1 /\ a[Len(s) + 1] = t[1]
      /\ \A i \in 1..Len(s) : a[i] = s[i]
      /\ Len(s) \in Nat
  BY <1>1, AppendProperties, LenProperties
<1> HIDE DEF a
<1>3. /\ a \o Tail(t) \in Seq(Focus!Commands) /\ Len(a \o Tail(t)) = Len(a) + Len(Tail(t))
      /\ \A i \in 1..Len(a) + Len(Tail(t)) :
           (a \o Tail(t))[i] = IF i <= Len(a) THEN a[i] ELSE Tail(t)[i - Len(a)]
  BY <1>1, <1>2, ConcatProperties
<1>4. /\ s \o t \in Seq(Focus!Commands) /\ Len(s \o t) = Len(s) + Len(t)
      /\ \A i \in 1..Len(s) + Len(t) : (s \o t)[i] = IF i <= Len(s) THEN s[i] ELSE t[i - Len(s)]
  BY ConcatProperties
<1>5. \A i \in 1..Len(s \o t) : (a \o Tail(t))[i] = (s \o t)[i]
  <2> SUFFICES ASSUME NEW i \in 1..Len(s \o t) PROVE (a \o Tail(t))[i] = (s \o t)[i]
    OBVIOUS
  <2>1. i \in 1..Len(a) + Len(Tail(t)) /\ i \in 1..Len(s) + Len(t)
    BY <1>1, <1>2, <1>4
  <2>2. CASE i <= Len(s)
    BY <1>2, <1>3, <1>4, <2>1, <2>2
  <2>3. CASE i = Len(s) + 1
    BY <1>1, <1>2, <1>3, <1>4, <2>1, <2>3
  <2>4. CASE i > Len(s) + 1
    BY <1>1, <1>2, <1>3, <1>4, <2>1, <2>4
  <2> QED
    BY <1>2, <2>1, <2>2, <2>3, <2>4
<1>6. Len(a \o Tail(t)) = Len(s \o t)
  BY <1>1, <1>2, <1>3, <1>4
<1>7. a \o Tail(t) = s \o t
  BY <1>3, <1>4, <1>5, <1>6, SeqEqual
<1> QED
  BY <1>1, <1>2, <1>7 DEF a

\* The next command is executed.
LEMMA Executed ==
  ASSUME NEW s \in Seq(Focus!Commands), NEW t \in Seq(Focus!Commands), s # << >>
  PROVE  /\ s \o t # << >> /\ Head(s) = Head(s \o t) /\ Tail(s) \o t = Tail(s \o t)
         /\ Tail(s) \in Seq(Focus!Commands)
<1> DEFINE all == s \o t
           rest == Tail(s)
           joined == rest \o t
           later == Tail(all)
<1>1. Head(s) \in Focus!Commands /\ rest \in Seq(Focus!Commands) /\ Len(rest) = Len(s) - 1
      /\ Len(s) \in Nat \ {0} /\ Len(t) \in Nat /\ Head(s) = s[1]
      /\ \A i \in 1..Len(rest) : rest[i] = s[i + 1]
  BY HeadTailProperties, EmptySeq, LenProperties
<1>2. /\ all \in Seq(Focus!Commands) /\ Len(all) = Len(s) + Len(t)
      /\ \A i \in 1..Len(s) + Len(t) : all[i] = IF i <= Len(s) THEN s[i] ELSE t[i - Len(s)]
  BY ConcatProperties
<1> HIDE DEF all
<1>3. all # << >>
  BY <1>1, <1>2, EmptySeq
<1>4. /\ Head(all) = all[1] /\ later \in Seq(Focus!Commands)
      /\ Len(later) = Len(all) - 1
      /\ \A i \in 1..Len(later) : later[i] = all[i + 1]
  BY <1>2, <1>3, HeadTailProperties
<1> HIDE DEF rest, later
<1>5. /\ joined \in Seq(Focus!Commands) /\ Len(joined) = Len(rest) + Len(t)
      /\ \A i \in 1..Len(rest) + Len(t) :
           joined[i] = IF i <= Len(rest) THEN rest[i] ELSE t[i - Len(rest)]
  BY <1>1, ConcatProperties
<1> HIDE DEF joined
<1>6. Head(s) = Head(all)
  BY <1>1, <1>2, <1>4
<1>7. Len(joined) = Len(later)
  BY <1>1, <1>2, <1>4, <1>5
<1>8. \A i \in 1..Len(later) : joined[i] = later[i]
  <2> SUFFICES ASSUME NEW i \in 1..Len(later) PROVE joined[i] = later[i]
    OBVIOUS
  <2>1. /\ i \in 1..Len(rest) + Len(t) /\ i + 1 \in 1..Len(s) + Len(t)
        /\ later[i] = all[i + 1]
    BY <1>1, <1>2, <1>4
  <2>2. /\ joined[i] = IF i <= Len(rest) THEN rest[i] ELSE t[i - Len(rest)]
        /\ all[i + 1] = IF i + 1 <= Len(s) THEN s[i + 1] ELSE t[i + 1 - Len(s)]
    <3>1. joined[i] = IF i <= Len(rest) THEN rest[i] ELSE t[i - Len(rest)]
      BY <1>5, <2>1
    <3>2. all[i + 1] = IF i + 1 <= Len(s) THEN s[i + 1] ELSE t[i + 1 - Len(s)]
      BY <1>2, <2>1
    <3> QED
      BY <3>1, <3>2, Zenon
  <2>3. CASE i <= Len(rest)
    <3>1. i \in 1..Len(rest) /\ i + 1 <= Len(s)
      BY <1>1, <2>1, <2>3
    <3>2. rest[i] = s[i + 1]
      BY <1>1, <3>1
    <3> QED
      BY <2>1, <2>2, <2>3, <3>1, <3>2, Zenon
  <2>4. CASE ~(i <= Len(rest))
    <3>1. i - Len(rest) = i + 1 - Len(s) /\ ~(i + 1 <= Len(s))
      BY <1>1, <2>4
    <3> QED
      BY <2>1, <2>2, <2>4, <3>1, Zenon
  <2> QED
    BY <2>3, <2>4
<1>9. joined = later
  BY <1>4, <1>5, <1>7, <1>8, SeqEqual
<1> QED
  BY <1>1, <1>3, <1>6, <1>9 DEF all, rest, joined, later

\* What is to come does not change the flags it is for.
LEMMA Unmoved ==
  ASSUME Following, Coming' = Coming, noted' = noted, flags' = flags, lapsed' = lapsed
  PROVE  Following'
BY DEF Following, LastIs, NoneFor, Meant

-----------------------------------------------------------------------------
(* The steps.                                                              *)

\* Only the message queue and what is noted matter for what the bridge is told.
LEMMA SatelliteKeeps ==
  ASSUME Focus!BoundsAssumption, FocusInv, Focus!SatelliteMoves
  PROVE  FocusInv'
<1>1. /\ news \in Seq(Focus!States) /\ satellite' \in Focus!States /\ moves' \in 0..MaxStates
  BY DEF Focus!SatelliteMoves, FocusInv, Focus!TypeOK, Focus!BoundsAssumption
<1>2. subscribed =>
        /\ news' \in Seq(Focus!States) /\ news' # << >> /\ news'[Len(news')] = satellite'
  BY <1>1, AppendProperties DEF Focus!SatelliteMoves
<1>3. Focus!TypeOK'
  BY <1>1, <1>2 DEF Focus!SatelliteMoves, FocusInv, Focus!TypeOK, Focus!bridge, Focus!transport
<1>4. ASSUME ~lost' PROVE Told' /\ Following'
  <2>1. subscribed /\ ~lost
    BY <1>4 DEF Focus!SatelliteMoves, FocusInv, Focus!TypeOK
  <2>2. Told'
    BY <1>2, <2>1 DEF Told
  <2>3. Coming' = Coming /\ noted' = noted /\ flags' = flags /\ lapsed' = lapsed
    BY DEF Focus!SatelliteMoves, Coming, Focus!bridge, Focus!transport
  <2> QED
    BY <2>1, <2>2, <2>3, Unmoved DEF FocusInv
<1>5. lost' \in BOOLEAN
  BY <1>3 DEF Focus!TypeOK
<1> QED
  BY <1>3, <1>4, <1>5 DEF FocusInv

LEMMA SubscriptionKeeps ==
  ASSUME Focus!BoundsAssumption, FocusInv, Focus!Unsubscribed \/ Focus!Subscribes
  PROVE FocusInv'
<1>1. Focus!TypeOK'
  <2>1. lost' \in BOOLEAN
    BY DEF Focus!Unsubscribed, Focus!Subscribes, FocusInv, Focus!TypeOK
  <2>2. troubles' \in 0..MaxTroubles
    <3>1. troubles' = troubles \/ (troubles < MaxTroubles /\ troubles' = troubles + 1)
      BY DEF Focus!Unsubscribed, Focus!Subscribes, Focus!Trouble
    <3>2. troubles \in 0..MaxTroubles /\ MaxTroubles \in Nat
      BY DEF FocusInv, Focus!TypeOK, Focus!BoundsAssumption
    <3> QED
      BY <3>1, <3>2
  <2>3. subscribed' \in BOOLEAN /\ news' \in Seq(Focus!States) /\ (~subscribed' => news' = << >>)
    BY EmptySeq DEF Focus!Unsubscribed, Focus!Subscribes, FocusInv, Focus!TypeOK
  <2>4. UNCHANGED <<satellite, noted, todo, online, waiting, line, flags, lapsed, moves>>
    BY DEF Focus!Unsubscribed, Focus!Subscribes, Focus!transport
  <2> QED
    BY <2>1, <2>2, <2>3, <2>4 DEF FocusInv, Focus!TypeOK
<1>2. ASSUME ~lost' PROVE Told' /\ Following'
  <2>1. ~lost /\ news' = news /\ satellite' = satellite /\ noted' = noted
    BY <1>2 DEF Focus!Unsubscribed, Focus!Subscribes, FocusInv, Focus!TypeOK
  <2>2. Coming' = Coming /\ flags' = flags /\ lapsed' = lapsed
    BY DEF Focus!Unsubscribed, Focus!Subscribes, Coming, Focus!transport
  <2> QED
    BY <2>1, <2>2, Unmoved DEF FocusInv, Told
<1> QED
  BY <1>1, <1>2 DEF FocusInv, Focus!TypeOK

\* The commands for a change, or none where the flags stay as they are.
LEMMA TranslationIs ==
  ASSUME NEW previous \in Focus!States \cup {"none"}, NEW current \in Focus!States
  PROVE  LET c == Focus!FocusCommands(previous, current) IN
         \/ c = << >> /\ Meant(previous) = Meant(current)
         \/ \E f, g \in Focus!FlagNames : f # g /\
              c = <<[flag |-> f, on |-> f \in Meant(current)], [flag |-> g,
                                                                on |-> g \in Meant(current)]>>
<1>1. CASE current \in Focus!Hearing
  <2>1. Focus!FocusCommands(previous, current) = <<Focus!Off("speaking"),
                                                   Focus!On("listening")>>
    BY <1>1 DEF Focus!FocusCommands, Focus!Active, Focus!Hearing
  <2>2. Meant(current) = {"listening"}
    BY <1>1 DEF Meant, Focus!Hearing
  <2>3. ("speaking" \in Meant(current)) = FALSE /\ ("listening" \in Meant(current)) = TRUE
    BY <2>2
  <2>4. /\ Focus!Off("speaking") = [flag |-> "speaking", on |-> "speaking" \in Meant(current)]
        /\ Focus!On("listening") = [flag |-> "listening",
                                    on |-> "listening" \in Meant(current)]
    BY <2>3, Zenon DEF Focus!On, Focus!Off
  <2>5. /\ "speaking" \in Focus!FlagNames /\ "listening" \in Focus!FlagNames
        /\ "speaking" # "listening"
    BY DEF Focus!FlagNames
  <2> QED
    BY <2>1, <2>4, <2>5, Zenon
<1>2. CASE current = "responding"
  <2>1. Focus!FocusCommands(previous, current) = <<Focus!Off("listening"),
                                                   Focus!On("speaking")>>
    BY <1>2 DEF Focus!FocusCommands, Focus!Active, Focus!Hearing
  <2>2. Meant(current) = {"speaking"}
    BY <1>2 DEF Meant, Focus!Hearing
  <2>3. ("listening" \in Meant(current)) = FALSE /\ ("speaking" \in Meant(current)) = TRUE
    BY <2>2
  <2>4. /\ Focus!Off("listening") = [flag |-> "listening",
                                     on |-> "listening" \in Meant(current)]
        /\ Focus!On("speaking") = [flag |-> "speaking", on |-> "speaking" \in Meant(current)]
    BY <2>3, Zenon DEF Focus!On, Focus!Off
  <2>5. /\ "listening" \in Focus!FlagNames /\ "speaking" \in Focus!FlagNames
        /\ "listening" # "speaking"
    BY DEF Focus!FlagNames
  <2> QED
    BY <2>1, <2>4, <2>5, Zenon
<1>3. CASE current \notin Focus!Active /\ previous \in Focus!Active
  <2>1. Focus!FocusCommands(previous, current) = <<Focus!Off("listening"),
                                                   Focus!Off("speaking")>>
    BY <1>3 DEF Focus!FocusCommands, Focus!Active, Focus!Hearing
  <2>2. Meant(current) = {}
    BY <1>3 DEF Meant, Focus!Hearing, Focus!Active
  <2>3. \A f \in Focus!FlagNames : (f \in Meant(current)) = FALSE
    BY <2>2
  <2>4. \A f \in Focus!FlagNames : Focus!Off(f) = [flag |-> f, on |-> f \in Meant(current)]
    BY <2>3, Zenon DEF Focus!Off
  <2>5. /\ "speaking" \in Focus!FlagNames /\ "listening" \in Focus!FlagNames
        /\ "speaking" # "listening"
    BY DEF Focus!FlagNames
  <2> QED
    BY <2>1, <2>4, <2>5, Zenon
<1>4. CASE current \notin Focus!Active /\ previous \notin Focus!Active
  <2>1. Focus!FocusCommands(previous, current) = << >>
    BY <1>4 DEF Focus!FocusCommands, Focus!Active, Focus!Hearing
  <2>2. Meant(current) = {} /\ Meant(previous) = {}
    BY <1>4 DEF Meant, Focus!Hearing, Focus!Active
  <2> QED
    BY <2>1, <2>2
<1> QED
  BY <1>1, <1>2, <1>3, <1>4 DEF Focus!Active

\* Commands for both flags at the end settle what they will be.
LEMMA BothSettled ==
  ASSUME NEW s \in Seq(Focus!Commands), NEW f \in Focus!FlagNames, NEW g \in Focus!FlagNames,
         f # g,
         NEW a \in BOOLEAN, NEW b \in BOOLEAN
  PROVE  LET all == s \o <<[flag |-> f, on |-> a], [flag |-> g, on |-> b]>> IN
         LastIs(all, f, a) /\ LastIs(all, g, b)
<1> DEFINE c == [flag |-> f, on |-> a]
           d == [flag |-> g, on |-> b]
           all == s \o <<c, d>>
<1>1. /\ c \in Focus!Commands /\ d \in Focus!Commands /\ c.flag = f /\ c.on = a /\ d.flag = g
      /\ d.on = b
  BY DEF Focus!Commands
<1> HIDE DEF c, d
<1>2. <<c, d>> \in Seq(Focus!Commands) /\ Len(<<c, d>>) = 2 /\ <<c, d>>[1] = c /\ <<c,
                                                                                    d>>[2] = d
      /\ Len(s) \in Nat
  BY <1>1
<1>3. /\ Len(all) = Len(s) + 2 /\ all[Len(s) + 1] = c /\ all[Len(s) + 2] = d
  BY <1>2, ConcatProperties
<1> HIDE DEF all
<1>4. LastIs(all, f, a)
  <2>1. Len(s) + 1 \in 1..Len(all)
    BY <1>2, <1>3
  <2>2. \A j \in 1..Len(all) : j > Len(s) + 1 => all[j].flag # f
    BY <1>1, <1>2, <1>3
  <2> QED
    BY <1>1, <1>3, <2>1, <2>2 DEF LastIs
<1>5. LastIs(all, g, b)
  <2>1. Len(s) + 2 \in 1..Len(all)
    BY <1>2, <1>3
  <2>2. \A j \in 1..Len(all) : ~(j > Len(s) + 2)
    BY <1>2, <1>3
  <2> QED
    BY <1>1, <1>3, <2>1, <2>2 DEF LastIs
<1> QED
  BY <1>4, <1>5 DEF all, c, d

LEMMA HandleKeeps ==
  ASSUME Focus!BoundsAssumption, FocusInv, Focus!HandleMessage
  PROVE  FocusInv'
<1> DEFINE now == Head(news)
<1>1. /\ news \in Seq(Focus!States) /\ news # << >> /\ now \in Focus!States
      /\ Tail(news) \in Seq(Focus!States)
      /\ Len(Tail(news)) = Len(news) - 1 /\ Len(news) \in Nat \ {0} /\ now = news[1]
      /\ \A i \in 1..Len(Tail(news)) : Tail(news)[i] = news[i + 1]
      /\ noted \in Focus!States \cup {"none"}
  BY HeadTailProperties, EmptySeq DEF Focus!HandleMessage, FocusInv, Focus!TypeOK
<1>2. /\ noted' = now /\ news' = Tail(news) /\ todo = << >>
      /\ todo' = (IF now = noted THEN << >> ELSE Focus!FocusCommands(noted, now))
      /\ UNCHANGED <<satellite, subscribed, line, waiting, online, flags, lapsed, lost, moves,
                     troubles>>
  BY DEF Focus!HandleMessage, Focus!transport
<1> HIDE DEF now
<1>3. \/ todo' = << >> /\ Meant(noted) = Meant(now)
      \/ \E f, g \in Focus!FlagNames : f # g /\
           todo' = <<[flag |-> f, on |-> f \in Meant(now)], [flag |-> g,
                                                             on |-> g \in Meant(now)]>>
  BY <1>1, <1>2, TranslationIs
<1>4. todo' \in Seq(Focus!Commands)
  <2>1. CASE todo' = << >>
    BY <2>1, EmptySeq
  <2>2. ASSUME NEW f \in Focus!FlagNames, NEW g \in Focus!FlagNames, f # g,
               todo' = <<[flag |-> f, on |-> f \in Meant(now)], [flag |-> g,
                                                                 on |-> g \in Meant(now)]>>
        PROVE  todo' \in Seq(Focus!Commands)
    <3>1. /\ [flag |-> f, on |-> f \in Meant(now)] \in Focus!Commands
          /\ [flag |-> g, on |-> g \in Meant(now)] \in Focus!Commands
      BY DEF Focus!Commands
    <3> QED
      BY <2>2, <3>1
  <2> QED
    BY <1>3, <2>1, <2>2
<1>5. Focus!TypeOK'
  <2>1. {todo, waiting, line}' \subseteq Seq(Focus!Commands)
    BY <1>2, <1>4, QueuesAre DEF FocusInv
  <2> QED
    BY <1>1, <1>2, <2>1 DEF FocusInv, Focus!TypeOK, Focus!HandleMessage
<1>6. ASSUME ~lost' PROVE Told'
  <2>1. satellite = news[Len(news)]
    BY <1>1, <1>2, <1>6 DEF FocusInv, Told
  <2>2. CASE Tail(news) = << >>
    <3>1. Len(news) = 1
      <4>1. Len(Tail(news)) = 0
        BY <2>2, EmptySeq
      <4>2. Len(Tail(news)) = Len(news) - 1 /\ Len(news) \in Nat
        BY <1>1
      <4> HIDE DEF now
      <4> QED
        BY <4>1, <4>2
    <3> QED
      BY <1>1, <1>2, <2>1, <2>2, <3>1 DEF Told
  <2>3. CASE Tail(news) # << >>
    <3>1. Len(Tail(news)) \in 1..Len(Tail(news)) /\ Tail(news)[Len(Tail(news))] = news[Len(news)]
      BY <1>1, <2>3, EmptySeq
    <3> QED
      BY <1>2, <2>1, <2>3, <3>1 DEF Told
  <2> QED
    BY <2>2, <2>3
<1>7. ASSUME ~lost' PROVE Following'
  <2> DEFINE before == line \o waiting
  <2>1. before \in Seq(Focus!Commands) /\ Coming = before /\ Coming' = before \o todo'
    BY <1>2, QueuesAre, ConcatEmptySeq DEF FocusInv, Coming
  <2>2. CASE todo' = << >> /\ Meant(noted) = Meant(now)
    <3>1. Coming' = Coming /\ Meant(noted') = Meant(noted)
      BY <1>2, <2>1, <2>2, ConcatEmptySeq
    <3>2. Following
      BY <1>2, <1>7 DEF FocusInv
    <3> QED
      BY <1>2, <3>1, <3>2 DEF Following, LastIs, NoneFor, Meant
  <2>3. ASSUME NEW f \in Focus!FlagNames, NEW g \in Focus!FlagNames, f # g,
               todo' = <<[flag |-> f, on |-> f \in Meant(now)], [flag |-> g,
                                                                 on |-> g \in Meant(now)]>>
        PROVE  Following'
    <3>1. LastIs(Coming', f, f \in Meant(now)) /\ LastIs(Coming', g, g \in Meant(now))
      <4>1. (f \in Meant(now)) \in BOOLEAN /\ (g \in Meant(now)) \in BOOLEAN
        OBVIOUS
      <4>2. Coming' = before \o <<[flag |-> f, on |-> f \in Meant(now)],
                                  [flag |-> g, on |-> g \in Meant(now)]>>
        BY <2>1, <2>3, Zenon
      <4> HIDE DEF before
      <4> QED
        BY <2>1, <2>3, <4>1, <4>2, BothSettled, Zenon
    <3>2. Focus!FlagNames = {f, g}
      BY <2>3 DEF Focus!FlagNames
    <3> QED
      BY <1>2, <3>1, <3>2 DEF Following, LastIs, Meant
  <2> QED
    BY <1>3, <2>2, <2>3
<1>8. lost' \in BOOLEAN
  BY <1>5 DEF Focus!TypeOK
<1> QED
  BY <1>5, <1>6, <1>7, <1>8 DEF FocusInv

\* Nothing but the place of the commands changes, as long as none is lost.
LEMMA PlacesKeep ==
  ASSUME Focus!BoundsAssumption, FocusInv,
         \/ Focus!Send \/ Focus!SendFails \/ Focus!CoreRestarts
         \/ Focus!Disconnects \/ Focus!Reconnects \/ Focus!Replay \/ Focus!CommandExpires,
         Focus!TypeOK',
         lost' \/ (Coming' = Coming /\ Meant(noted') = Meant(noted) /\ news' = news)
  PROVE  FocusInv'
<1>1. lost' \in BOOLEAN /\ (lost => lost')
  BY DEF Focus!Send, Focus!SendFails, Focus!CoreRestarts, Focus!Disconnects, Focus!Reconnects,
     Focus!Replay, Focus!CommandExpires, FocusInv, Focus!TypeOK
<1>2. UNCHANGED <<satellite, flags, lapsed>>
  BY DEF Focus!Send, Focus!SendFails, Focus!CoreRestarts, Focus!Disconnects, Focus!Reconnects,
     Focus!Replay, Focus!CommandExpires
<1>3. ASSUME ~lost' PROVE Told' /\ Following'
  <2>1. Told /\ Following /\ Coming' = Coming /\ Meant(noted') = Meant(noted) /\ news' = news
    BY <1>1, <1>3 DEF FocusInv
  <2>2. news = << >> \/ satellite = news[Len(news)]
    BY <2>1 DEF Told
  <2>3. Told'
    BY <1>2, <2>1 DEF Told, Meant
  <2>4. Following'
    BY <1>2, <2>1 DEF Following, LastIs, NoneFor, Meant
  <2> QED
    BY <2>3, <2>4
<1> QED
  BY <1>1, <1>3 DEF FocusInv

\* Three queues in a row.
LEMMA InAnyOrder ==
  ASSUME NEW a \in Seq(Focus!Commands), NEW b \in Seq(Focus!Commands),
         NEW c \in Seq(Focus!Commands)
  PROVE  (a \o b) \o c = a \o (b \o c)
<1> DEFINE S == Focus!Commands
<1>1. a \in Seq(S) /\ b \in Seq(S) /\ c \in Seq(S)
  OBVIOUS
<1> HIDE DEF S
<1> QED
  BY <1>1, ConcatAssociative

LEMMA SendKeeps == ASSUME Focus!BoundsAssumption, FocusInv, Focus!Send PROVE FocusInv'
<1>1. /\ line \in Seq(Focus!Commands) /\ waiting \in Seq(Focus!Commands)
      /\ todo \in Seq(Focus!Commands)
      /\ line \o waiting \in Seq(Focus!Commands)
  BY QueuesAre DEF FocusInv
<1>2. /\ Append(line, Head(todo)) \in Seq(Focus!Commands)
      /\ Append(waiting, Head(todo)) \in Seq(Focus!Commands)
      /\ Tail(todo) \in Seq(Focus!Commands)
  BY <1>1, HandedOn DEF Focus!Send
<1>3. Focus!TypeOK'
  BY <1>1, <1>2 DEF Focus!Send, FocusInv, Focus!TypeOK
<1>4. ASSUME ~lost' PROVE Coming' = Coming
  <2>1. CASE online
    <3>1. /\ waiting = << >> /\ waiting' = waiting /\ line' = Append(line, Head(todo))
          /\ todo' = Tail(todo)
      BY <1>4, <2>1 DEF Focus!Send, FocusInv, Focus!TypeOK
    <3>2. Append(line, Head(todo)) \o Tail(todo) = line \o todo
      BY <1>1, HandedOn DEF Focus!Send
    <3> QED
      BY <1>1, <1>2, <3>1, <3>2, ConcatEmptySeq DEF Coming
  <2>2. CASE ~online
    <3>1. waiting' = Append(waiting, Head(todo)) /\ line' = line /\ todo' = Tail(todo)
      BY <2>2 DEF Focus!Send
    <3>2. Append(waiting, Head(todo)) \o Tail(todo) = waiting \o todo
      BY <1>1, HandedOn DEF Focus!Send
    <3>3. Coming = line \o (waiting \o todo)
      BY <1>1, InAnyOrder DEF Coming
    <3> DEFINE longer == Append(waiting, Head(todo))
               rest == Tail(todo)
    <3>4. (line \o longer) \o rest = line \o (longer \o rest)
      <4>1. longer \in Seq(Focus!Commands)
        BY <1>2
      <4>2. rest \in Seq(Focus!Commands)
        BY <1>2
      <4>3. line \in Seq(Focus!Commands)
        BY <1>1
      <4> HIDE DEF longer, rest
      <4> QED
        BY <4>1, <4>2, <4>3, InAnyOrder
    <3>5. Coming' = line \o (Append(waiting, Head(todo)) \o Tail(todo))
      BY <3>1, <3>4 DEF Coming
    <3> QED
      BY <3>2, <3>3, <3>5
  <2> QED
    BY <2>1, <2>2
<1>5. noted' = noted /\ news' = news
  BY DEF Focus!Send
<1>6. lost' \in BOOLEAN
  BY <1>3 DEF Focus!TypeOK
<1> QED
  BY <1>3, <1>4, <1>5, <1>6, PlacesKeep

LEMMA LossesKeep ==
  ASSUME Focus!BoundsAssumption, FocusInv, Focus!SendFails \/ Focus!CommandExpires
  PROVE FocusInv'
<1>1. /\ waiting \in Seq(Focus!Commands) /\ todo \in Seq(Focus!Commands)
      /\ line \in Seq(Focus!Commands)
  BY QueuesAre DEF FocusInv
<1>2. Focus!TypeOK' /\ lost'
  <2>1. CASE Focus!SendFails
    <3>1. Tail(todo) \in Seq(Focus!Commands)
      BY <1>1, <2>1, HandedOn DEF Focus!SendFails
    <3> QED
      BY <1>1, <2>1, <3>1 DEF Focus!SendFails, Focus!Trouble, FocusInv, Focus!TypeOK,
         Focus!transport, Focus!BoundsAssumption
  <2>2. CASE Focus!CommandExpires
    <3>1. Tail(waiting) \in Seq(Focus!Commands)
      BY <1>1, <2>2, HandedOn DEF Focus!CommandExpires
    <3> QED
      BY <1>1, <2>2, <3>1 DEF Focus!CommandExpires, Focus!Trouble, FocusInv, Focus!TypeOK,
         Focus!bridge, Focus!BoundsAssumption
  <2> QED
    BY <2>1, <2>2
<1> QED
  BY <1>2 DEF FocusInv

LEMMA RestartKeeps ==
  ASSUME Focus!BoundsAssumption, FocusInv, Focus!CoreRestarts
  PROVE  FocusInv'
<1>1. /\ line \in Seq(Focus!Commands) /\ waiting \in Seq(Focus!Commands)
      /\ todo \in Seq(Focus!Commands)
      /\ line \o waiting \in Seq(Focus!Commands) /\ << >> \in Seq(Focus!Commands)
      /\ << >> \in Seq(Focus!States)
  BY QueuesAre, EmptySeq DEF FocusInv
<1>2. Focus!TypeOK'
  <2>1. lost' \in BOOLEAN
    BY DEF Focus!CoreRestarts, FocusInv, Focus!TypeOK
  <2>2. troubles' \in 0..MaxTroubles
    BY DEF Focus!CoreRestarts, Focus!Trouble, FocusInv, Focus!TypeOK, Focus!BoundsAssumption
  <2>3. /\ {todo, waiting, line}' \subseteq Seq(Focus!Commands)
        /\ news' \in Seq(Focus!States) /\ news' = << >>
        /\ noted' \in Focus!States \cup {"none"} /\ subscribed' \in BOOLEAN
        /\ online' \in BOOLEAN
    BY <1>1 DEF Focus!CoreRestarts
  <2>4. UNCHANGED <<satellite, flags, lapsed, moves>>
    BY DEF Focus!CoreRestarts
  <2> QED
    BY <2>1, <2>2, <2>3, <2>4 DEF FocusInv, Focus!TypeOK
<1>3. ASSUME ~lost' PROVE Coming' = Coming /\ Meant(noted') = Meant(noted) /\ news' = news
  <2>1. noted \notin Focus!Active /\ news = << >> /\ todo = << >>
    BY <1>3 DEF Focus!CoreRestarts, FocusInv, Focus!TypeOK
  <2>2. Meant(noted) = {} /\ Meant("none") = {}
    BY <2>1 DEF Meant, Focus!Active, Focus!Hearing
  <2>3. Coming' = (<< >> \o (line \o waiting)) \o << >>
    BY DEF Focus!CoreRestarts, Coming
  <2>4. Coming' = line \o waiting /\ Coming = line \o waiting
    BY <1>1, <2>1, <2>3, ConcatEmptySeq DEF Coming
  <2> QED
    BY <2>1, <2>2, <2>4 DEF Focus!CoreRestarts
<1>4. lost' \in BOOLEAN
  BY <1>2 DEF Focus!TypeOK
<1> QED
  BY <1>2, <1>3, <1>4, PlacesKeep

LEMMA RoomKeeps ==
  ASSUME Focus!BoundsAssumption, FocusInv,
         Focus!Disconnects \/ Focus!Reconnects \/ Focus!Replay PROVE FocusInv'
<1>1. /\ line \in Seq(Focus!Commands) /\ waiting \in Seq(Focus!Commands)
      /\ todo \in Seq(Focus!Commands)
      /\ line \o waiting \in Seq(Focus!Commands) /\ << >> \in Seq(Focus!Commands)
  BY QueuesAre, EmptySeq DEF FocusInv
<1>2. CASE Focus!Disconnects
  <2>1. Focus!TypeOK'
    <3>1. troubles' \in 0..MaxTroubles
      BY <1>2 DEF Focus!Disconnects, Focus!Trouble, FocusInv, Focus!TypeOK,
         Focus!BoundsAssumption
    <3>2. {todo, waiting, line}' \subseteq Seq(Focus!Commands) /\ online' \in BOOLEAN
      BY <1>1, <1>2 DEF Focus!Disconnects, Focus!bridge
    <3>3. UNCHANGED <<satellite, subscribed, noted, news, flags, lapsed, lost, moves>>
      BY <1>2 DEF Focus!Disconnects, Focus!bridge
    <3> QED
      BY <3>1, <3>2, <3>3 DEF FocusInv, Focus!TypeOK
  <2>2. Coming' = (<< >> \o (line \o waiting)) \o todo /\ noted' = noted /\ news' = news
    BY <1>2 DEF Focus!Disconnects, Coming, Focus!bridge
  <2>3. Coming' = Coming
    BY <1>1, <2>2, ConcatEmptySeq DEF Coming
  <2> QED
    BY <1>2, <2>1, <2>2, <2>3, PlacesKeep
<1>3. CASE Focus!Reconnects
  <2>1. Focus!TypeOK'
    BY <1>1, <1>3 DEF Focus!Reconnects, FocusInv, Focus!TypeOK, Focus!bridge
  <2>2. Coming' = Coming /\ noted' = noted /\ news' = news
    BY <1>3 DEF Focus!Reconnects, Coming, Focus!bridge
  <2> QED
    BY <1>3, <2>1, <2>2, PlacesKeep
<1>4. CASE Focus!Replay
  <2>1. /\ Append(line, Head(waiting)) \o Tail(waiting) = line \o waiting
        /\ Append(line, Head(waiting)) \in Seq(Focus!Commands)
        /\ Tail(waiting) \in Seq(Focus!Commands)
    BY <1>1, <1>4, HandedOn DEF Focus!Replay
  <2>2. Focus!TypeOK'
    BY <1>1, <1>4, <2>1 DEF Focus!Replay, FocusInv, Focus!TypeOK, Focus!bridge
  <2>3. Coming' = Coming /\ noted' = noted /\ news' = news
    BY <1>4, <2>1 DEF Focus!Replay, Coming, Focus!bridge
  <2> QED
    BY <1>4, <2>2, <2>3, PlacesKeep
<1> QED
  BY <1>2, <1>3, <1>4

\* The new agent has no flags; what the old one had is remembered as ended.
LEMMA NewAgentKeeps ==
  ASSUME Focus!BoundsAssumption, FocusInv, Focus!AgentRestarts PROVE FocusInv'
<1>1. /\ line \in Seq(Focus!Commands) /\ waiting \in Seq(Focus!Commands)
      /\ todo \in Seq(Focus!Commands)
      /\ line \o waiting \in Seq(Focus!Commands) /\ << >> \in Seq(Focus!Commands)
  BY QueuesAre, EmptySeq DEF FocusInv
<1>2. /\ flags' = {} /\ lapsed' = lapsed \cup flags
      /\ UNCHANGED <<satellite, subscribed, noted, todo, news, lost, moves>>
  BY DEF Focus!AgentRestarts, Focus!bridge
<1>3. Focus!TypeOK'
  <2>1. troubles' \in 0..MaxTroubles
    BY DEF Focus!AgentRestarts, Focus!Trouble, FocusInv, Focus!TypeOK, Focus!BoundsAssumption
  <2>2. {todo, waiting, line}' \subseteq Seq(Focus!Commands) /\ online' \in BOOLEAN
    BY <1>1, <1>2 DEF Focus!AgentRestarts
  <2>3. flags' \subseteq Focus!FlagNames /\ lapsed' \subseteq Focus!FlagNames \ flags'
    BY <1>2 DEF FocusInv, Focus!TypeOK
  <2> QED
    BY <1>2, <2>1, <2>2, <2>3 DEF FocusInv, Focus!TypeOK
<1>4. Coming' = Coming
  <2>1. Coming' = (<< >> \o (line \o waiting)) \o todo
    BY <1>2 DEF Focus!AgentRestarts, Coming
  <2> QED
    BY <1>1, <2>1, ConcatEmptySeq DEF Coming
<1>5. ASSUME ~lost PROVE Told' /\ Following'
  <2>1. Told /\ Following
    BY <1>5 DEF FocusInv
  <2>2. Told'
    BY <1>2, <2>1 DEF Told, Meant
  <2>3. Following'
    BY <1>2, <1>4, <2>1 DEF Following, LastIs, NoneFor, Meant
  <2> QED
    BY <2>2, <2>3
<1> QED
  BY <1>2, <1>3, <1>5 DEF FocusInv

LEMMA ExecuteKeeps == ASSUME Focus!BoundsAssumption, FocusInv, Focus!Execute PROVE FocusInv'
<1> DEFINE c == Head(line)
<1>1. /\ line \in Seq(Focus!Commands) /\ waiting \in Seq(Focus!Commands)
      /\ todo \in Seq(Focus!Commands)
      /\ Coming \in Seq(Focus!Commands) /\ line # << >>
  BY QueuesAre DEF FocusInv, Focus!Execute
<1>2. c \in Focus!Commands /\ Tail(line) \in Seq(Focus!Commands)
  BY <1>1, HeadTailProperties
<1>3. /\ Coming # << >> /\ c = Head(Coming) /\ Coming' = Tail(Coming)
  <2> DEFINE both == line \o waiting
  <2>1. /\ both # << >> /\ c = Head(both) /\ Tail(line) \o waiting = Tail(both)
        /\ both \in Seq(Focus!Commands)
    BY <1>1, Executed, ConcatProperties
  <2>2. /\ both \o todo # << >> /\ Head(both) = Head(both \o todo)
        /\ Tail(both) \o todo = Tail(both \o todo)
    BY <1>1, <2>1, Executed
  <2> QED
    BY <2>1, <2>2 DEF Focus!Execute, Coming, Focus!bridge
<1>4. /\ flags' = (IF c.on THEN flags \cup {c.flag} ELSE flags \ {c.flag})
      /\ lapsed' = lapsed \ {c.flag} /\ line' = Tail(line)
      /\ UNCHANGED <<satellite, subscribed, noted, todo, news, online, waiting, lost, moves,
                     troubles>>
  BY DEF Focus!Execute, Focus!bridge
<1> HIDE DEF c
<1>5. c.flag \in Focus!FlagNames /\ c.on \in BOOLEAN
  BY <1>2 DEF Focus!Commands
<1>6. Focus!TypeOK'
  <2>1. flags' \subseteq Focus!FlagNames /\ lapsed' \subseteq Focus!FlagNames \ flags'
    BY <1>4, <1>5 DEF FocusInv, Focus!TypeOK
  <2> QED
    BY <1>1, <1>2, <1>4, <2>1 DEF FocusInv, Focus!TypeOK
<1>7. /\ Len(Coming) \in Nat \ {0} /\ c = Coming[1] /\ Len(Coming') = Len(Coming) - 1
      /\ \A i \in 1..Len(Coming') : Coming'[i] = Coming[i + 1]
  BY <1>1, <1>3, HeadTailProperties, EmptySeq
<1>8. ASSUME ~lost', NEW f \in Focus!FlagNames
      PROVE  \/ LastIs(Coming', f, f \in Meant(noted))
             \/ /\ NoneFor(Coming', f)
                /\ f \in flags' => f \in Meant(noted)
                /\ f \in Meant(noted) => f \in flags' \cup lapsed'
  <2>1. Following
    BY <1>4, <1>8 DEF FocusInv
  <2>2. CASE NoneFor(Coming, f)
    <3>1. c.flag # f /\ NoneFor(Coming', f)
      <4>1. 1 \in 1..Len(Coming)
            /\ \A i \in 1..Len(Coming') : i + 1 \in 1..Len(Coming)
        BY <1>7
      <4>2. \A i \in 1..Len(Coming) : Coming[i].flag # f
        BY <2>2 DEF NoneFor
      <4>3. c.flag # f /\ \A i \in 1..Len(Coming') : Coming'[i].flag # f
        BY <1>7, <4>1, <4>2
      <4> QED
        BY <4>3 DEF NoneFor
    <3>2. \A b : ~LastIs(Coming, f, b)
      BY <2>2 DEF LastIs, NoneFor
    <3>3. (f \in flags => f \in Meant(noted)) /\ (f \in Meant(noted) => f \in flags \cup lapsed)
      BY <2>1, <3>2 DEF Following
    <3>4. (f \in flags' <=> f \in flags) /\ (f \in lapsed' <=> f \in lapsed)
      BY <1>4, <3>1
    <3> QED
      BY <3>1, <3>3, <3>4
  <2>3. CASE LastIs(Coming, f, f \in Meant(noted))
    <3>1. PICK i \in 1..Len(Coming) :
            /\ Coming[i].flag = f /\ Coming[i].on = (f \in Meant(noted))
            /\ \A j \in 1..Len(Coming) : j > i => Coming[j].flag # f
      BY <2>3 DEF LastIs
    <3>2. CASE i = 1
      <4>1. c.flag = f /\ c.on = (f \in Meant(noted))
        BY <1>7, <3>1, <3>2
      <4>2. NoneFor(Coming', f)
        BY <1>7, <3>1, <3>2 DEF NoneFor
      <4>3. f \in flags' <=> f \in Meant(noted)
        BY <1>4, <4>1
      <4> QED
        BY <4>2, <4>3
    <3>3. CASE i > 1
      <4>1. i - 1 \in 1..Len(Coming') /\ Coming'[i - 1] = Coming[i]
        BY <1>7, <3>1, <3>3
      <4>2. \A j \in 1..Len(Coming') : j > i - 1 => Coming'[j].flag # f
        BY <1>7, <3>1, <3>3
      <4> QED
        BY <3>1, <4>1, <4>2 DEF LastIs
    <3> QED
      BY <3>1, <3>2, <3>3
  <2> QED
    BY <2>1, <2>2, <2>3 DEF Following
<1>9. ASSUME ~lost' PROVE Told' /\ Following'
  <2>1. Told'
    BY <1>4, <1>9 DEF FocusInv, Told, Meant
  <2>2. Following'
    BY <1>4, <1>8, <1>9 DEF Following, LastIs, NoneFor, Meant
  <2> QED
    BY <2>1, <2>2
<1>10. lost' \in BOOLEAN
  BY <1>6 DEF Focus!TypeOK
<1> QED
  BY <1>6, <1>9, <1>10 DEF FocusInv

LEMMA LapseKeeps == ASSUME Focus!BoundsAssumption, FocusInv, Focus!Lapses PROVE FocusInv'
<1>1. PICK f \in flags : flags' = flags \ {f} /\ lapsed' = lapsed \cup {f}
  BY DEF Focus!Lapses
<1>2. UNCHANGED <<satellite, subscribed, noted, todo, news, online, waiting, line, lost,
                  moves, troubles>>
  BY DEF Focus!Lapses, Focus!bridge, Focus!transport
<1>3. Focus!TypeOK'
  BY <1>1, <1>2 DEF FocusInv, Focus!TypeOK
<1>4. ASSUME ~lost' PROVE Told' /\ Following'
  <2>1. Told /\ Following
    BY <1>2, <1>4 DEF FocusInv
  <2>2. /\ Coming' = Coming
        /\ \A g :
             /\ (g \in flags' => g \in flags)
             /\ (g \in flags \cup lapsed => g \in flags' \cup lapsed')
    BY <1>1, <1>2 DEF Coming
  <2>3. Following'
    BY <1>2, <2>1, <2>2 DEF Following, LastIs, NoneFor, Meant
  <2> QED
    BY <1>2, <2>1, <2>3 DEF Told, Meant
<1> QED
  BY <1>2, <1>3, <1>4 DEF FocusInv, Focus!TypeOK

-----------------------------------------------------------------------------
LEMMA FocusInit == ASSUME Focus!BoundsAssumption, Focus!Init PROVE FocusInv
<1>1. Focus!TypeOK
  <2>1. {todo, waiting, line} \subseteq Seq(Focus!Commands) /\ news \in Seq(Focus!States)
    BY EmptySeq DEF Focus!Init
  <2>2. satellite \in Focus!States /\ moves \in 0..MaxStates /\ troubles \in 0..MaxTroubles
    BY DEF Focus!BoundsAssumption, Focus!Init, Focus!States
  <2> QED
    BY <2>1, <2>2 DEF Focus!Init, Focus!TypeOK
<1>2. Meant("idle") = {} /\ Meant("none") = {}
  BY DEF Meant, Focus!Hearing
<1>3. Coming = << >> /\ Len(<< >>) = 0
  BY EmptySeq, ConcatEmptySeq DEF Focus!Init, Coming
<1>4. Told
  BY <1>2 DEF Focus!Init, Told
<1>5. \A f \in Focus!FlagNames : NoneFor(Coming, f) /\ f \notin flags /\ f \notin Meant(noted)
  BY <1>2, <1>3 DEF Focus!Init, NoneFor
<1>6. Following
  BY <1>5 DEF Following
<1> QED
  BY <1>1, <1>4, <1>6 DEF FocusInv

LEMMA FocusKept == ASSUME Focus!BoundsAssumption, FocusInv, Focus!Next PROVE FocusInv'
BY SatelliteKeeps, SubscriptionKeeps, HandleKeeps, SendKeeps, LossesKeep, RestartKeeps,
   RoomKeeps, NewAgentKeeps, ExecuteKeeps, LapseKeeps DEF Focus!Next

LEMMA FocusRests == ASSUME FocusInv, UNCHANGED Focus!vars PROVE FocusInv'
<1>1. Focus!TypeOK' /\ Coming' = Coming /\ lost' = lost
  BY DEF Focus!vars, Focus!bridge, Focus!transport, FocusInv, Focus!TypeOK, Coming
<1>2. ASSUME ~lost' PROVE Told' /\ Following'
  <2>1. Told /\ Following /\ noted' = noted /\ flags' = flags /\ lapsed' = lapsed
        /\ satellite' = satellite /\ news' = news
    BY <1>1, <1>2 DEF FocusInv, Focus!vars, Focus!bridge
  <2> QED
    BY <1>1, <2>1, Unmoved DEF Told, Meant
<1> QED
  BY <1>1, <1>2 DEF FocusInv

LEMMA FocusSafe == ASSUME FocusInv PROVE Focus!FocusFollows
<1> SUFFICES ASSUME ~lost, news = << >>, todo = << >>, waiting = << >>, line = << >>
             PROVE  /\ flags \subseteq Meant(satellite)
                    /\ Meant(satellite) \subseteq flags \cup lapsed
  BY DEF Focus!FocusFollows, Meant
<1>1. Coming = << >> /\ Len(<< >>) = 0
  BY EmptySeq, ConcatEmptySeq DEF Coming
<1>2. \A f \in Focus!FlagNames :
        (f \in flags => f \in Meant(noted)) /\ (f \in Meant(noted) => f \in flags \cup lapsed)
  BY <1>1 DEF FocusInv, Following, LastIs, NoneFor
<1>3. /\ Meant(satellite) = Meant(noted) /\ Meant(noted) \subseteq Focus!FlagNames
      /\ flags \subseteq Focus!FlagNames
  BY DEF FocusInv, Focus!TypeOK, Told, Meant, Focus!FlagNames
<1> QED
  BY <1>2, <1>3

-----------------------------------------------------------------------------
(* Speech on its way (api.py, audio_assets.py).                             *)

\* A turn that awaits something is somebody's.
Spoken ==
  \A t \in Turns :
    turns[t].at \in Speech!Awaiting => turns[t].device \in Devices /\ turns[t].room \in Rooms

\* An asset of the assistant was sent to, and downloaded by, its recipient alone.
Addressed ==
  /\ \A a \in Assets, d \in Devices : <<a, d>> \in read \cup sent => a \in used
  /\ \A a \in Assets : rows[a].live /\ rows[a].kind = "assistant" =>
       \A d \in Devices : <<a, d>> \in read \cup sent => rows[a].recipient = d

\* A file has its row.
Stored == \A a \in clips : rows[a].live \/ a \in orphans

SpeechInv == Speech!TypeOK /\ Spoken /\ Addressed /\ Stored

Rows == [live: BOOLEAN, kind: Speech!Kinds, room: Rooms \cup {Speech!Nobody},
         recipient: Devices \cup {Speech!Nobody},
         aged: BOOLEAN]

LEMMA SpeechInit == ASSUME Speech!BoundsAssumption, Speech!Init PROVE SpeechInv
<1> DEFINE Turning == [at: {"idle", "over"} \cup Speech!Awaiting, kind: Speech!Kinds,
                       room: Rooms \cup {Speech!Nobody}, device: Devices \cup {Speech!Nobody},
                       play: BOOLEAN]
<1>1. /\ rows \in [Assets -> Rows]
      /\ \A a \in Assets : ~rows[a].live /\ rows[a].kind = "assistant"
      /\ turns \in [Turns -> Turning] /\ \A t \in Turns : turns[t].at \notin Speech!Awaiting
      /\ devices \in [Devices -> [room: Rooms, revoked: BOOLEAN]]
      /\ upsets \in 0..MaxUpsets
  <2>1. Speech!NoRow \in Rows /\ ~Speech!NoRow.live /\ Speech!NoRow.kind = "assistant"
    BY DEF Speech!NoRow, Rows, Speech!Kinds
  <2>2. Speech!NoTurn \in Turning /\ Speech!NoTurn.at \notin Speech!Awaiting
    BY DEF Speech!NoTurn, Speech!Kinds, Speech!Awaiting
  <2>3. devices \in [Devices -> [room: Rooms, revoked: BOOLEAN]]
    BY DEF Speech!Init
  <2>4. upsets \in 0..MaxUpsets
    BY DEF Speech!Init, Speech!BoundsAssumption
  <2> HIDE DEF Turning
  <2> QED
    BY <2>1, <2>2, <2>3, <2>4 DEF Speech!Init
<1>2. /\ clips = {} /\ used = {} /\ orphans = {} /\ sent = {} /\ read = {}
  BY DEF Speech!Init
<1>3. Speech!TypeOK
  BY <1>1, <1>2 DEF Speech!TypeOK, Rows
<1> QED
  BY <1>1, <1>2, <1>3 DEF SpeechInv, Spoken, Addressed, Stored

\* What cleanup leaves of the rows.
LEMMA Cleaned ==
  ASSUME SpeechInv
  PROVE  /\ Speech!KeptRows \in [Assets -> Rows]
         /\ \A a \in Assets :
              /\ Speech!KeptRows[a].live => Speech!KeptRows[a] = rows[a] /\ a \notin Speech!Aged
              /\ Speech!KeptRows[a].kind = "announcement" =>
                   Speech!KeptRows[a].recipient = Speech!Nobody
              /\ a \notin Speech!Aged => Speech!KeptRows[a] = rows[a]
         /\ Speech!Aged \subseteq used /\ Speech!KeptFiles \subseteq clips
         /\ \A a \in Speech!KeptFiles : Speech!KeptRows[a].live \/ a \in orphans
<1>1. Speech!NoRow \in Rows /\ ~Speech!NoRow.live /\ Speech!NoRow.kind = "assistant"
  BY DEF Speech!NoRow, Rows, Speech!Kinds
<1>2. rows \in [Assets -> Rows]
  BY DEF SpeechInv, Speech!TypeOK, Rows
<1> QED
  BY <1>1, <1>2 DEF SpeechInv, Speech!TypeOK, Stored, Speech!KeptRows, Speech!KeptFiles,
     Speech!Aged

LEMMA DevicesKeep ==
  ASSUME Speech!BoundsAssumption, SpeechInv, NEW d \in Devices,
         Speech!Registers(d) \/ Speech!Revoked(d)
  PROVE  SpeechInv'
<1>1. upsets' \in 0..MaxUpsets
  BY DEF Speech!Registers, Speech!Revoked, Speech!Upset, SpeechInv, Speech!TypeOK,
     Speech!BoundsAssumption
<1>2. devices' \in [Devices -> [room: Rooms, revoked: BOOLEAN]]
  <2>1. devices \in [Devices -> [room: Rooms, revoked: BOOLEAN]]
    BY DEF SpeechInv, Speech!TypeOK
  <2>2. CASE Speech!Registers(d)
    BY <2>1, <2>2 DEF Speech!Registers
  <2>3. CASE Speech!Revoked(d)
    BY <2>1, <2>3 DEF Speech!Revoked
  <2> QED
    BY <2>2, <2>3
<1> QED
  BY <1>1, <1>2 DEF Speech!Registers, Speech!Revoked, SpeechInv, Speech!TypeOK, Spoken,
     Addressed, Stored

LEMMA AgesKeeps ==
  ASSUME Speech!BoundsAssumption, SpeechInv, NEW a \in Assets, Speech!Ages(a)
  PROVE  SpeechInv'
<1>1. rows \in [Assets -> Rows]
  BY DEF SpeechInv, Speech!TypeOK, Rows
<1>2. /\ rows' \in [Assets -> Rows]
      /\ \A b \in Assets : /\ rows'[b].live = rows[b].live /\ rows'[b].kind = rows[b].kind
                           /\ rows'[b].recipient = rows[b].recipient
  BY <1>1 DEF Speech!Ages, Rows
<1> QED
  BY <1>2 DEF Speech!Ages, SpeechInv, Speech!TypeOK, Spoken, Addressed, Stored, Rows

\* A new asset, which nobody has been sent or read, or none.
LEMMA Creating ==
  ASSUME Speech!BoundsAssumption, SpeechInv, NEW a \in Assets, NEW kind \in Speech!Kinds,
         NEW room \in Rooms,
         NEW recipient \in Devices \cup {Speech!Nobody},
         kind = "announcement" => recipient = Speech!Nobody,
         Speech!Create(a, kind, room, recipient), UNCHANGED <<orphans, read>>,
         sent' \subseteq Assets \X Devices,
         \A b \in Assets, d \in Devices : <<b, d>> \in sent' =>
           \/ <<b, d>> \in sent
           \/ b = a /\ (kind = "assistant" => d = recipient)
  PROVE  /\ rows' \in [Assets -> Rows] /\ clips' \subseteq used' /\ used' \subseteq Assets
         /\ orphans' \subseteq used' /\ Addressed' /\ Stored'
         /\ \A b \in Assets : /\ rows'[b].live => b \in used'
                              /\ rows'[b].kind = "announcement" =>
                                   rows'[b].recipient = Speech!Nobody
<1> DEFINE new == [live |-> TRUE, kind |-> kind, room |-> room, recipient |-> recipient,
                   aged |-> FALSE]
<1>1. new \in Rows /\ new.live /\ new.kind = kind /\ new.recipient = recipient
  BY DEF Rows
<1>2. a \notin used /\ used' = used \cup {a}
  BY DEF Speech!Create
<1>3. \/ rows' = [Speech!KeptRows EXCEPT ![a] = new] /\ clips' = Speech!KeptFiles \cup {a}
      \/ rows' = Speech!KeptRows /\ clips' = Speech!KeptFiles
  BY DEF Speech!Create
<1> HIDE DEF new
<1>4. /\ rows' \in [Assets -> Rows]
      /\ \A b \in Assets : /\ rows'[b].live => (b = a /\ rows'[b] = new) \/ rows'[b] = rows[b]
                           /\ rows'[b].kind = "announcement" =>
                                rows'[b].recipient = Speech!Nobody
  BY <1>1, <1>3, Cleaned
<1>5. clips' \subseteq used' /\ used' \subseteq Assets /\ orphans' \subseteq used'
  BY <1>2, <1>3, Cleaned DEF SpeechInv, Speech!TypeOK
<1>6. \A b \in Assets : rows'[b].live => b \in used'
  BY <1>2, <1>4 DEF SpeechInv, Speech!TypeOK
<1>7. Stored'
  BY <1>1, <1>3, Cleaned DEF Stored, SpeechInv, Speech!TypeOK
<1>8. Addressed'
  <2>1. \A d \in Devices : <<a, d>> \notin read \cup sent
    BY <1>2 DEF SpeechInv, Addressed
  <2>2. \A b \in Assets, d \in Devices : <<b, d>> \in read' \cup sent' => b \in used'
    BY <1>2 DEF SpeechInv, Addressed
  <2>3. ASSUME NEW b \in Assets, rows'[b].live, rows'[b].kind = "assistant", NEW d \in Devices,
               <<b, d>> \in read' \cup sent'
        PROVE  rows'[b].recipient = d
    <3>1. CASE b = a
      <4>1. rows'[a] = new
        BY <1>2, <1>4, <2>3, <3>1 DEF SpeechInv, Speech!TypeOK
      <4> QED
        BY <1>1, <2>1, <2>3, <3>1, <4>1
    <3>2. CASE b # a
      BY <1>4, <2>3, <3>2 DEF SpeechInv, Addressed
    <3> QED
      BY <3>1, <3>2
  <2> QED
    BY <2>2, <2>3 DEF Addressed
<1> QED
  BY <1>4, <1>5, <1>6, <1>7, <1>8

LEMMA UploadKeeps ==
  ASSUME Speech!BoundsAssumption, SpeechInv, NEW a \in Assets, Speech!Upload(a)
  PROVE  SpeechInv'
<1>1. PICK k \in Speech!Kinds, r \in Rooms : Speech!Create(a, k, r, Speech!Nobody)
  BY DEF Speech!Upload
<1>2. sent' = sent /\ UNCHANGED <<devices, turns, orphans, read, upsets>>
  BY DEF Speech!Upload
<1>3. sent' \subseteq Assets \X Devices
  BY <1>2 DEF SpeechInv, Speech!TypeOK
<1>4. /\ rows' \in [Assets -> Rows] /\ clips' \subseteq used' /\ used' \subseteq Assets
      /\ orphans' \subseteq used' /\ Addressed' /\ Stored'
      /\ \A b \in Assets : /\ rows'[b].live => b \in used'
                           /\ rows'[b].kind = "announcement" =>
                                rows'[b].recipient = Speech!Nobody
  BY <1>1, <1>2, <1>3, Creating
<1> QED
  BY <1>2, <1>4 DEF SpeechInv, Speech!TypeOK, Spoken, Rows

LEMMA DeleteKeeps ==
  ASSUME Speech!BoundsAssumption, SpeechInv, NEW a \in Assets, Speech!Delete(a)
  PROVE  SpeechInv'
<1>1. /\ Speech!NoRow \in Rows /\ ~Speech!NoRow.live /\ Speech!NoRow.kind = "assistant"
      /\ rows \in [Assets -> Rows]
  BY DEF Speech!NoRow, Rows, Speech!Kinds, SpeechInv, Speech!TypeOK
<1>2. /\ rows' \in [Assets -> Rows]
      /\ \A b \in Assets : /\ rows'[b].live => rows'[b] = rows[b]
                           /\ rows'[b].kind = "announcement" =>
                                rows'[b].recipient = Speech!Nobody
                           /\ b # a => rows'[b] = rows[b]
  BY <1>1 DEF Speech!Delete, SpeechInv, Speech!TypeOK
<1>3. Stored'
  BY <1>2 DEF Speech!Delete, SpeechInv, Stored, Speech!TypeOK
<1> QED
  BY <1>2, <1>3 DEF Speech!Delete, SpeechInv, Speech!TypeOK, Spoken, Addressed, Rows

LEMMA SpeechSendKeeps ==
  ASSUME Speech!BoundsAssumption, SpeechInv, NEW a \in Assets, NEW d \in Devices,
         Speech!SendAsset(a, d)
  PROVE  SpeechInv'
<1>1. /\ a \notin Speech!Aged /\ rows[a].live /\ Speech!KeptRows[a] = rows[a] /\ a \in used
      /\ UNCHANGED <<devices, used, turns, read, orphans, upsets>>
      /\ sent' = sent \cup {<<a, d>>} /\ clips' = Speech!KeptFiles
  BY Cleaned DEF Speech!SendAsset, SpeechInv, Speech!TypeOK
<1>2. /\ rows' \in [Assets -> Rows]
      /\ \A b \in Assets : /\ rows'[b].live => rows'[b] = rows[b] \/ b = a
                           /\ rows'[b].kind = "announcement" =>
                                rows'[b].recipient = Speech!Nobody
                           /\ Speech!KeptRows[b].live => rows'[b].live
      /\ rows'[a].kind = rows[a].kind
      /\ rows[a].kind = "assistant" =>
           rows'[a].recipient = d /\ rows[a].recipient \in {d, Speech!Nobody}
  <2>1. CASE rows[a].kind = "announcement"
    BY <1>1, <2>1, Cleaned DEF Speech!SendAsset
  <2>2. CASE rows[a].kind # "announcement"
    <3>1. /\ rows' = [Speech!KeptRows EXCEPT ![a].recipient = d]
          /\ rows[a].recipient \in {d, Speech!Nobody}
      BY <2>2 DEF Speech!SendAsset, Speech!Bindable
    <3>2. [Speech!KeptRows[a] EXCEPT !.recipient = d] \in Rows
          /\ [Speech!KeptRows[a] EXCEPT !.recipient = d].kind = rows[a].kind
          /\ [Speech!KeptRows[a] EXCEPT !.recipient = d].recipient = d
          /\ [Speech!KeptRows[a] EXCEPT !.recipient = d].live
      BY <1>1, Cleaned DEF Rows
    <3>3. rows' = [Speech!KeptRows EXCEPT ![a] = [Speech!KeptRows[a] EXCEPT !.recipient = d]]
      BY <3>1
    <3> QED
      BY <1>1, <2>2, <3>1, <3>2, <3>3, Cleaned
  <2> QED
    BY <2>1, <2>2
<1>3. Stored'
  BY <1>1, <1>2, Cleaned DEF Stored, SpeechInv, Speech!TypeOK
<1>4. Addressed'
  <2>1. \A b \in Assets, e \in Devices : <<b, e>> \in read' \cup sent' => b \in used'
    BY <1>1 DEF SpeechInv, Addressed
  <2>2. ASSUME NEW b \in Assets, rows'[b].live, rows'[b].kind = "assistant", NEW e \in Devices,
               <<b, e>> \in read' \cup sent'
        PROVE  rows'[b].recipient = e
    <3>1. CASE b = a
      <4>1. <<a, e>> \in read \cup sent => rows[a].recipient = e
        BY <1>1, <1>2, <2>2, <3>1 DEF SpeechInv, Addressed
      <4> QED
        BY <1>1, <1>2, <2>2, <3>1, <4>1 DEF Speech!BoundsAssumption
    <3>2. CASE b # a
      BY <1>1, <1>2, <2>2, <3>2 DEF SpeechInv, Addressed
    <3> QED
      BY <3>1, <3>2
  <2> QED
    BY <2>1, <2>2 DEF Addressed
<1>5. \A b \in Assets : rows'[b].live => b \in used'
  BY <1>1, <1>2 DEF SpeechInv, Speech!TypeOK
<1> QED
  BY <1>1, <1>2, <1>3, <1>4, <1>5, Cleaned DEF SpeechInv, Speech!TypeOK, Spoken, Rows

LEMMA DownloadKeeps ==
  ASSUME Speech!BoundsAssumption, SpeechInv, NEW a \in Assets, NEW d \in Devices,
         Speech!Download(a, d)
  PROVE  SpeechInv'
<1>1. Speech!NoRow \in Rows /\ ~Speech!NoRow.live /\ Speech!NoRow.kind = "assistant"
  BY DEF Speech!NoRow, Rows, Speech!Kinds
<1>2. clips' = Speech!KeptFiles /\ rows[a].live /\ UNCHANGED <<devices, used, turns, sent,
                                                               orphans, upsets>>
      /\ rows' = IF a \in Speech!KeptFiles THEN Speech!KeptRows
                 ELSE [Speech!KeptRows EXCEPT ![a] = Speech!NoRow]
  BY DEF Speech!Download, Speech!Lookup
<1>3. /\ rows' \in [Assets -> Rows]
      /\ \A b \in Assets : /\ rows'[b].live => rows'[b] = rows[b]
                           /\ rows'[b].kind = "announcement" =>
                                rows'[b].recipient = Speech!Nobody
                           /\ b \in Speech!KeptFiles => rows'[b] = Speech!KeptRows[b]
  BY <1>1, <1>2, Cleaned
<1>4. Stored'
  BY <1>2, <1>3, Cleaned DEF Stored, SpeechInv, Speech!TypeOK
<1>5. /\ read' \subseteq Assets \X Devices
      /\ \A b \in Assets, e \in Devices : <<b, e>> \in read' =>
           \/ <<b, e>> \in read
           \/ rows[b].live /\ (rows[b].kind = "assistant" => rows[b].recipient = e)
  BY <1>2 DEF Speech!Download, Speech!Authorized, SpeechInv, Speech!TypeOK
<1>6. \A b \in Assets : rows[b].live => b \in used
  BY DEF SpeechInv, Speech!TypeOK
<1>7. Addressed'
  BY <1>2, <1>3, <1>5, <1>6 DEF SpeechInv, Addressed
<1> QED
  BY <1>2, <1>3, <1>4, <1>5, <1>6, <1>7, Cleaned DEF SpeechInv, Speech!TypeOK, Spoken, Rows

LEMMA TurnsKeep ==
  ASSUME Speech!BoundsAssumption, SpeechInv, NEW t \in Turns,
         \/ Speech!Transcribed(t) \/ Speech!PrimaryFails(t) \/ Speech!Answered(t)
         \/ Speech!TurnFails(t) \/ Speech!SynthesisFails(t)
         \/ \E d \in Devices :
              Speech!VoiceStarts(t, d) \/ Speech!PreviewStarts(t, d) \/ Speech!SpeakStarts(t, d)
  PROVE  SpeechInv'
<1> DEFINE Turning == [at: {"idle", "over"} \cup Speech!Awaiting, kind: Speech!Kinds,
                       room: Rooms \cup {Speech!Nobody}, device: Devices \cup {Speech!Nobody},
                       play: BOOLEAN]
<1>1. turns \in [Turns -> Turning] /\ devices \in [Devices -> [room: Rooms, revoked: BOOLEAN]]
  BY DEF SpeechInv, Speech!TypeOK
<1>2. UNCHANGED <<devices, rows, clips, used, sent, read, orphans, upsets>>
  BY DEF Speech!Unstored, Speech!Transcribed, Speech!PrimaryFails, Speech!Answered,
     Speech!TurnFails, Speech!SynthesisFails, Speech!VoiceStarts,
     Speech!PreviewStarts, Speech!SpeakStarts
<1>3. \E new \in Turning :
        /\ turns' = [turns EXCEPT ![t] = new]
        /\ new.at \in Speech!Awaiting => new.device \in Devices /\ new.room \in Rooms
  <2>1. CASE \/ Speech!Transcribed(t) \/ Speech!PrimaryFails(t) \/ Speech!Answered(t)
             \/ Speech!TurnFails(t) \/ Speech!SynthesisFails(t)
    <3>1. PICK at \in {"fallback", "answering", "synthesizing", "over"} :
            turns' = [turns EXCEPT ![t].at = at] /\ turns[t].at \in Speech!Awaiting
      BY <2>1 DEF Speech!Transcribed, Speech!PrimaryFails, Speech!Answered, Speech!TurnFails,
         Speech!SynthesisFails, Speech!Goes, Speech!Awaiting
    <3>2. turns' = [turns EXCEPT ![t] = [turns[t] EXCEPT !.at = at]]
      BY <3>1
    <3>3. [turns[t] EXCEPT !.at = at] \in Turning
          /\ [turns[t] EXCEPT !.at = at].device = turns[t].device
          /\ [turns[t] EXCEPT !.at = at].room = turns[t].room
      BY <1>1 DEF Speech!Awaiting
    <3> QED
      BY <3>1, <3>2, <3>3 DEF SpeechInv, Spoken
  <2>2. ASSUME NEW d \in Devices,
               Speech!VoiceStarts(t, d) \/ Speech!PreviewStarts(t, d) \/ Speech!SpeakStarts(t, d)
        PROVE  \E new \in Turning :
                 /\ turns' = [turns EXCEPT ![t] = new]
                 /\ new.at \in Speech!Awaiting => new.device \in Devices /\ new.room \in Rooms
    <3>1. PICK at \in {"transcribing", "synthesizing"}, k \in Speech!Kinds, r \in Rooms,
    play \in BOOLEAN :
            turns' = [turns EXCEPT ![t] = [at |-> at, kind |-> k, room |-> r, device |-> d,
                                           play |-> play]]
      BY <1>1, <2>2 DEF Speech!VoiceStarts, Speech!PreviewStarts, Speech!SpeakStarts,
         Speech!Kinds
    <3>2. [at |-> at, kind |-> k, room |-> r, device |-> d, play |-> play] \in Turning
      BY DEF Speech!Awaiting
    <3> QED
      BY <3>1, <3>2
  <2> QED
    BY <2>1, <2>2
<1>4. /\ turns' \in [Turns -> Turning]
      /\ \A u \in Turns :
           turns'[u].at \in Speech!Awaiting =>
             turns'[u].device \in Devices /\ turns'[u].room \in Rooms
  BY <1>1, <1>3 DEF SpeechInv, Spoken
<1> QED
  BY <1>2, <1>4 DEF SpeechInv, Speech!TypeOK, Spoken, Addressed, Stored

LEMMA SynthesizedKeeps ==
  ASSUME Speech!BoundsAssumption, SpeechInv, NEW t \in Turns, NEW a \in Assets,
         Speech!Synthesized(t, a)
  PROVE  SpeechInv'
<1> DEFINE Turning == [at: {"idle", "over"} \cup Speech!Awaiting, kind: Speech!Kinds,
                       room: Rooms \cup {Speech!Nobody}, device: Devices \cup {Speech!Nobody},
                       play: BOOLEAN]
<1>1. /\ turns \in [Turns -> Turning]
      /\ turns[t].kind \in Speech!Kinds /\ turns[t].room \in Rooms
      /\ turns[t].device \in Devices
      /\ Speech!Recipient(turns[t]) \in Devices \cup {Speech!Nobody}
      /\ turns[t].kind = "announcement" => Speech!Recipient(turns[t]) = Speech!Nobody
      /\ turns[t].kind = "assistant" => Speech!Recipient(turns[t]) = turns[t].device
  BY DEF Speech!Synthesized, Speech!Recipient, Speech!Awaiting, SpeechInv, Speech!TypeOK,
     Spoken
<1>2. /\ sent' \subseteq Assets \X Devices
      /\ \A b \in Assets, d \in Devices : <<b, d>> \in sent' =>
           \/ <<b, d>> \in sent
           \/ b = a /\ (turns[t].kind = "assistant" => d = Speech!Recipient(turns[t]))
  BY <1>1 DEF Speech!Synthesized, SpeechInv, Speech!TypeOK
<1>3. /\ Speech!Create(a, turns[t].kind, turns[t].room, Speech!Recipient(turns[t]))
      /\ UNCHANGED <<devices, read, orphans, upsets>>
  BY DEF Speech!Synthesized
<1>4. /\ rows' \in [Assets -> Rows] /\ clips' \subseteq used' /\ used' \subseteq Assets
      /\ orphans' \subseteq used' /\ Addressed' /\ Stored'
      /\ \A b \in Assets : /\ rows'[b].live => b \in used'
                           /\ rows'[b].kind = "announcement" =>
                                rows'[b].recipient = Speech!Nobody
  BY <1>1, <1>2, <1>3, Creating
<1>5. turns' \in [Turns -> Turning] /\ Spoken'
  <2>1. turns' = [turns EXCEPT ![t].at = "over"]
    BY DEF Speech!Synthesized, Speech!Goes
  <2> QED
    BY <1>1, <2>1 DEF SpeechInv, Spoken, Speech!Awaiting
<1> QED
  BY <1>2, <1>3, <1>4, <1>5 DEF SpeechInv, Speech!TypeOK, Rows

LEMMA SpeechCrashKeeps ==
  ASSUME Speech!BoundsAssumption, SpeechInv, Speech!CoreCrashes
  PROVE  SpeechInv'
<1> DEFINE Turning == [at: {"idle", "over"} \cup Speech!Awaiting, kind: Speech!Kinds,
                       room: Rooms \cup {Speech!Nobody}, device: Devices \cup {Speech!Nobody},
                       play: BOOLEAN]
<1>1. upsets' \in 0..MaxUpsets /\ UNCHANGED <<devices, sent, read>>
  BY DEF Speech!CoreCrashes, Speech!Upset, SpeechInv, Speech!TypeOK, Speech!BoundsAssumption
<1>2. turns' \in [Turns -> Turning] /\ \A t \in Turns : turns'[t].at \notin Speech!Awaiting
  <2>1. Speech!NoTurn \in Turning /\ Speech!NoTurn.at = "idle"
    BY DEF Speech!NoTurn, Speech!Kinds
  <2>2. /\ [Speech!NoTurn EXCEPT !.at = "over"] \in Turning
        /\ [Speech!NoTurn EXCEPT !.at = "over"].at = "over"
    BY <2>1
  <2> QED
    BY <2>1, <2>2 DEF Speech!CoreCrashes, Speech!Awaiting
<1>3. rows \in [Assets -> Rows]
  BY DEF SpeechInv, Speech!TypeOK, Rows
<1>4. /\ rows' \in [Assets -> Rows]
      /\ \A a \in Assets : /\ rows'[a].live => rows'[a] = rows[a]
                           /\ rows'[a].kind = "announcement" =>
                                rows'[a].recipient = Speech!Nobody
      /\ clips' \subseteq used' /\ used \subseteq used' /\ used' \subseteq Assets
      /\ orphans' \subseteq used' /\ Stored'
  <2>1. CASE UNCHANGED <<rows, clips, used, orphans>>
    BY <1>3, <2>1 DEF SpeechInv, Speech!TypeOK, Stored
  <2>2. CASE \E a \in Assets \ used :
               /\ used' = used \cup {a} /\ clips' = Speech!KeptFiles \cup {a}
               /\ orphans' = orphans \cup {a} /\ rows' = Speech!KeptRows
    BY <2>2, Cleaned DEF SpeechInv, Speech!TypeOK, Stored
  <2>3. CASE /\ Speech!Aged # {} /\ rows' = Speech!KeptRows
             /\ orphans' = orphans \cup Speech!Aged
             /\ UNCHANGED <<clips, used>>
    BY <2>3, Cleaned DEF SpeechInv, Speech!TypeOK, Stored, Speech!KeptFiles
  <2> QED
    BY <2>1, <2>2, <2>3 DEF Speech!CoreCrashes
<1>5. Addressed'
  BY <1>1, <1>4 DEF SpeechInv, Addressed, Speech!TypeOK
<1> QED
  BY <1>1, <1>2, <1>4, <1>5 DEF SpeechInv, Speech!TypeOK, Spoken, Rows

LEMMA SpeechKept == ASSUME Speech!BoundsAssumption, SpeechInv, Speech!Next PROVE SpeechInv'
BY DevicesKeep, AgesKeeps, UploadKeeps, DeleteKeeps, SpeechSendKeeps, DownloadKeeps, TurnsKeep,
   SynthesizedKeeps, SpeechCrashKeeps DEF Speech!Next

LEMMA SpeechRests == ASSUME SpeechInv, UNCHANGED Speech!vars PROVE SpeechInv'
BY DEF Speech!vars, SpeechInv, Speech!TypeOK, Spoken, Addressed, Stored

\* Speech counts with a definition of its own.
LEMMA SameCardinality == \A S : Speech!Cardinality(S) = Cardinality(S)
BY DEF Speech!Cardinality, Cardinality

LEMMA SpeechSafe == ASSUME SpeechInv PROVE Speech!SpeechIsPrivate
<1>1. ASSUME NEW a \in Assets, rows[a].live, rows[a].kind = "assistant"
      PROVE  Cardinality({d \in Devices : <<a, d>> \in read}) <= 1
  <2> DEFINE readers == {d \in Devices : <<a, d>> \in read}
  <2>1. readers \subseteq {rows[a].recipient}
    BY <1>1 DEF SpeechInv, Addressed
  <2>2. IsFiniteSet({rows[a].recipient}) /\ Cardinality({rows[a].recipient}) = 1
    BY FS_Singleton
  <2> HIDE DEF readers
  <2>3. Cardinality(readers) <= 1
    BY <2>1, <2>2, FS_Subset
  <2> QED
    BY <2>3 DEF readers
<1> QED
  BY <1>1, SameCardinality DEF SpeechInv, Addressed, Stored, Speech!SpeechIsPrivate

-----------------------------------------------------------------------------
(* The conversation engine (conversation.py).                               *)

\* A call that changed a light.
Did(call) == call.tool = "control_light" /\ call.ok

\* A request under way has its session and no reply; what it does is counted, it reaches for a
\* light once, and only for one that its text and what it heard of warrant.
Conducted(a) ==
  /\ a.phase # "idle" => a.session \in Sessions /\ a.reply = Assist!None
  /\ a.phase = "tool" => Len(a.calls) < MaxCalls
  /\ (a.phase = "tool" /\ a.tool = "control_light") => ~Assist!Used(a, {"control_light"})
  /\ Len(a.touched) <= 1 /\ (a.touched # <<>> => Assist!Used(a, {"control_light"}))
  /\ \A i, j \in 1..Len(a.calls) :
       Did(a.calls[i]) /\ Did(a.calls[j]) => a.calls[i].light = a.calls[j].light
  /\ \A i \in 1..Len(a.calls) : Did(a.calls[i]) => a.calls[i].light # Assist!None
  /\ a.referent \in {Assist!None, a.heard}
  /\ \A i \in 1..Len(a.touched) : Assist!Warranted(a, a.touched[i])

\* The turns of a session refer to no light but the one its latest exchange changed.
Referring == \A s \in Sessions : Assist!Referent(sessions[s].turns) \in {Assist!None, last[s]}

AssistInv == Assist!TypeOK /\ (\A q \in Requests : Conducted(asked[q])) /\ Referring

-----------------------------------------------------------------------------
\* The greatest of some numbers.
LEMMA GreatestOf ==
  ASSUME NEW n \in Nat, NEW S \in SUBSET (1..n), S # {}
  PROVE  LET k == CHOOSE i \in S : \A j \in S : j <= i IN k \in S /\ \A j \in S : j <= k
<1> DEFINE T == {n - y : y \in S}
<1>1. T \subseteq Nat /\ T # {}
  <2>1. \A y \in S : n - y \in Nat
    OBVIOUS
  <2> QED
    BY <2>1
<1>2. PICK z \in T : \A y \in T : ~(<<y, z>> \in OpToRel(<, Nat))
  BY <1>1, NatLessThanWellFounded, WFMin, Zenon
<1>3. PICK x \in S : z = n - x
  BY DEF T
<1>4. \A y \in S : y <= x
  <2> SUFFICES ASSUME NEW y \in S PROVE y <= x
    OBVIOUS
  <2>1. n - y \in T /\ n - y \in Nat /\ n - x \in Nat
    OBVIOUS
  <2>2. ~(n - y < n - x)
    BY <1>2, <1>3, <2>1 DEF OpToRel
  <2> QED
    BY <2>2
<1> QED
  BY <1>4

\* The newest turns.
LEMMA KeptIs ==
  ASSUME Assist!BoundsAssumption, NEW said \in Seq(Assist!TurnRows)
  PROVE  /\ Assist!Kept(said) \in Seq(Assist!TurnRows) /\ Len(Assist!Kept(said)) <= MaxTurns
         /\ \E m \in Nat \ {0} :
              /\ m <= Len(said) + 1 /\ Len(Assist!Kept(said)) = Len(said) + 1 - m
              /\ \A i \in 1..Len(Assist!Kept(said)) : Assist!Kept(said)[i] = said[m + i - 1]
<1> DEFINE m == IF Len(said) > MaxTurns THEN Len(said) - MaxTurns + 1 ELSE 1
<1>1. /\ m \in Nat \ {0} /\ m <= Len(said) + 1 /\ Len(said) + 1 - m <= MaxTurns
      /\ Len(said) \in Nat
  BY DEF Assist!BoundsAssumption
<1>2. Assist!Kept(said) = SubSeq(said, m, Len(said))
  BY DEF Assist!Kept
<1> HIDE DEF m
<1>3. \A i \in m..Len(said) : said[i] \in Assist!TurnRows
  BY <1>1
<1>4. /\ Assist!Kept(said) \in Seq(Assist!TurnRows)
      /\ Len(Assist!Kept(said)) = Len(said) + 1 - m
      /\ \A i \in 1..Len(Assist!Kept(said)) : Assist!Kept(said)[i] = said[m + i - 1]
  BY <1>1, <1>2, <1>3, SubSeqProperties
<1> QED
  BY <1>1, <1>4

\* What follows an exchange refers at most to the light the exchange changed.
LEMMA ReferentAfter ==
  ASSUME Assist!BoundsAssumption, NEW said \in Seq(Assist!TurnRows),
         NEW more \in Seq(Assist!TurnRows),
         more # <<>>, more[1].role = "user", NEW light,
         \A i \in 1..Len(more) : Assist!IsLight(more[i]) /\ more[i].ok => more[i].light = light
  PROVE  Assist!Referent(Assist!Kept(said \o more)) \in {Assist!None, light}
<1> DEFINE all == said \o more
           new == Assist!Kept(all)
           marks == {i \in DOMAIN new : /\ Len(new) < i + Assist!Recalled
                                        /\ new[i].role = "user" \/ Assist!IsLight(new[i])}
           k == CHOOSE i \in marks : \A j \in marks : j <= i
           t == new[k]
<1>1. /\ all \in Seq(Assist!TurnRows) /\ Len(all) = Len(said) + Len(more)
      /\ Len(said) \in Nat /\ Len(more) \in Nat \ {0}
      /\ \A i \in 1..Len(all) : all[i] = IF i <= Len(said) THEN said[i] ELSE more[i - Len(said)]
  BY ConcatProperties, LenProperties, EmptySeq
<1> HIDE DEF all
<1>2. PICK m \in Nat \ {0} :
        /\ m <= Len(all) + 1 /\ Len(new) = Len(all) + 1 - m
        /\ \A i \in 1..Len(new) : new[i] = all[m + i - 1]
  BY <1>1, KeptIs
<1>3. DOMAIN new = 1..Len(new) /\ new \in Seq(Assist!TurnRows) /\ Len(new) \in Nat
  BY <1>1, KeptIs, LenProperties
<1>4. Assist!Referent(new) = IF marks = {} THEN Assist!None
                      ELSE IF t.role = "tool" /\ t.ok THEN t.light ELSE Assist!None
  BY DEF Assist!Referent
<1> HIDE DEF new
<1>5. ASSUME marks # {}, t.role = "tool", t.ok PROVE t.light = light
  <2>1. marks \in SUBSET (1..Len(new))
    BY <1>3
  <2>2. k \in marks /\ \A j \in marks : j <= k
    BY <1>3, <1>5, <2>1, GreatestOf
  <2>6. \A i \in DOMAIN new :
          i \in marks <=> /\ Len(new) < i + Assist!Recalled
                          /\ new[i].role = "user" \/ Assist!IsLight(new[i])
    OBVIOUS
  <2> HIDE DEF k, marks
  <2>3. k \in 1..Len(new) /\ Assist!IsLight(t) /\ t = all[m + k - 1] /\ m + k - 1 \in 1..Len(all)
    <3>1. k \in 1..Len(new) /\ (new[k].role = "user" \/ Assist!IsLight(new[k]))
      BY <1>3, <2>1, <2>2, <2>6, Zenon
    <3>2. k \in 1..Len(new) /\ Assist!IsLight(t)
      BY <1>5, <3>1
    <3>3. t = all[m + k - 1]
      BY <1>2, <3>2
    <3>4. m + k - 1 \in 1..Len(all)
      BY <1>1, <1>2, <1>3, <3>2
    <3> QED
      BY <3>2, <3>3, <3>4
  <2>4. CASE m + k - 1 > Len(said)
    <3>1. t = more[m + k - 1 - Len(said)] /\ m + k - 1 - Len(said) \in 1..Len(more)
      BY <1>1, <2>3, <2>4
    <3> QED
      BY <1>5, <2>3, <3>1
  <2>5. CASE m + k - 1 <= Len(said)
    <3> DEFINE j == Len(said) + 2 - m
    <3>1. j \in 1..Len(new) /\ j > k /\ new[j] = all[Len(said) + 1]
      BY <1>1, <1>2, <2>3, <2>5
    <3>2. all[Len(said) + 1] = more[1]
      <4>1. /\ Len(said) + 1 \in 1..Len(all) /\ ~(Len(said) + 1 <= Len(said))
            /\ Len(said) + 1 - Len(said) = 1
        BY <1>1
      <4>2. all[Len(said) + 1] = more[Len(said) + 1 - Len(said)]
        BY <1>1, <4>1
      <4> QED
        BY <4>1, <4>2
    <3>3. j \in marks
      <4>1. Len(new) < k + Assist!Recalled
        BY <1>3, <2>1, <2>2, <2>6, Zenon
      <4>2. k \in Int /\ j \in Int /\ Len(new) \in Nat /\ Assist!Recalled \in Nat
        BY <1>1, <1>3, <2>3 DEF Assist!Recalled
      <4>3. Len(new) < j + Assist!Recalled
        BY <3>1, <4>1, <4>2
      <4>4. new[j].role = "user"
        BY <3>1, <3>2
      <4> QED
        BY <1>3, <2>6, <3>1, <4>3, <4>4
    <3>4. j <= k
      BY <2>2, <3>3, Zenon
    <3>5. j \in Int /\ k \in Int
      BY <1>1, <2>3
    <3> QED
      BY <3>1, <3>4, <3>5
  <2> QED
    BY <1>1, <1>2, <2>3, <2>4, <2>5
<1> QED
  BY <1>4, <1>5 DEF new, all

\* The light a request changed.
LEMMA ChangedIs ==
  ASSUME NEW calls \in Seq(Assist!Calls)
  PROVE  /\ Assist!Changed(calls) \in Lights \cup {Assist!None}
         /\ (\A i \in 1..Len(calls) : ~Did(calls[i])) => Assist!Changed(calls) = Assist!None
         /\ (\A i, j \in 1..Len(calls) :
               Did(calls[i]) /\ Did(calls[j]) => calls[i].light = calls[j].light) =>
              \A i \in 1..Len(calls) : Did(calls[i]) => calls[i].light = Assist!Changed(calls)
<1> DEFINE done == {c \in Assist!ToSet(calls) : c.tool = "control_light" /\ c.ok}
<1>1. DOMAIN calls = 1..Len(calls) /\ \A i \in 1..Len(calls) : calls[i] \in Assist!Calls
  BY LenProperties, ElementOfSeq
<1>2. \A c : c \in done <=> \E i \in 1..Len(calls) : c = calls[i] /\ Did(c)
  BY <1>1 DEF Did, Assist!ToSet
<1>3. Assist!Changed(calls) = IF done = {} THEN Assist!None ELSE (CHOOSE c \in done : TRUE).light
  BY DEF Assist!Changed
<1> HIDE DEF done
<1>4. done # {} => (CHOOSE c \in done : TRUE) \in done
  OBVIOUS
<1>5. Assist!Changed(calls) \in Lights \cup {Assist!None}
  BY <1>1, <1>2, <1>3, <1>4 DEF Assist!Calls
<1>6. (\A i \in 1..Len(calls) : ~Did(calls[i])) => Assist!Changed(calls) = Assist!None
  BY <1>2, <1>3
<1>7. ASSUME \A i, j \in 1..Len(calls) :
               Did(calls[i]) /\ Did(calls[j]) => calls[i].light = calls[j].light,
             NEW i \in 1..Len(calls), Did(calls[i])
      PROVE  calls[i].light = Assist!Changed(calls)
  BY <1>2, <1>3, <1>4, <1>7
<1> QED
  BY <1>5, <1>6, <1>7

\* The turns of an exchange.
LEMMA ExchangeIs ==
  ASSUME Assist!BoundsAssumption, NEW calls \in Seq(Assist!Calls),
         \A i, j \in 1..Len(calls) :
           Did(calls[i]) /\ Did(calls[j]) => calls[i].light = calls[j].light
  PROVE  /\ Assist!Exchange(calls) \in Seq(Assist!TurnRows)
         /\ Len(Assist!Exchange(calls)) = Len(calls) + 2
         /\ Assist!Exchange(calls)[1].role = "user"
         /\ \A i \in 1..Len(Assist!Exchange(calls)) :
              Assist!IsLight(Assist!Exchange(calls)[i]) /\ Assist!Exchange(calls)[i].ok =>
                Assist!Exchange(calls)[i].light = Assist!Changed(calls)
<1> DEFINE user == Assist!Turn("user", Assist!None, Assist!None, TRUE)
           assistant == Assist!Turn("assistant", Assist!None, Assist!None, TRUE)
           tool(c) == IF c.tool = "control_light"
                      THEN Assist!Turn("tool", "control_light", c.light, c.ok)
                      ELSE Assist!Turn("tool", Assist!None, Assist!None, FALSE)
           tools == [i \in DOMAIN calls |-> tool(calls[i])]
<1>1. /\ DOMAIN calls = 1..Len(calls) /\ Len(calls) \in Nat
      /\ \A i \in 1..Len(calls) : calls[i] \in Assist!Calls
  BY LenProperties, ElementOfSeq
<1>2. /\ user \in Assist!TurnRows /\ assistant \in Assist!TurnRows
      /\ \A c \in Assist!Calls : tool(c) \in Assist!TurnRows
  BY DEF Assist!Turn, Assist!TurnRows, Assist!Calls, Assist!Tools
<1>3. ~Assist!IsLight(user) /\ ~Assist!IsLight(assistant) /\ user.role = "user"
  BY DEF Assist!Turn, Assist!IsLight
<1>4. \A c \in Assist!Calls :
        Assist!IsLight(tool(c)) /\ tool(c).ok => Did(c) /\ tool(c).light = c.light
  BY DEF Assist!Turn, Assist!IsLight, Did, Assist!Calls
<1> HIDE DEF user, assistant, tool
<1>5. /\ tools \in Seq(Assist!TurnRows) /\ Len(tools) = Len(calls)
      /\ \A i \in 1..Len(calls) : tools[i] = tool(calls[i])
  BY <1>1, <1>2
<1> HIDE DEF tools
<1> DEFINE front == <<user>> \o tools
<1>6. Assist!Exchange(calls) = front \o <<assistant>>
  BY DEF Assist!Exchange, user, assistant, tool, tools
<1>7. /\ front \in Seq(Assist!TurnRows) /\ Len(front) = Len(calls) + 1
      /\ \A i \in 1..Len(calls) + 1 : front[i] = IF i = 1 THEN user ELSE tools[i - 1]
  BY <1>1, <1>2, <1>5
<1> HIDE DEF front
<1>8. /\ Assist!Exchange(calls) \in Seq(Assist!TurnRows)
      /\ Len(Assist!Exchange(calls)) = Len(calls) + 2
      /\ \A i \in 1..Len(calls) + 2 : Assist!Exchange(calls)[i] =
           IF i = 1 THEN user ELSE IF i = Len(calls) + 2 THEN assistant ELSE tools[i - 1]
  BY <1>1, <1>2, <1>6, <1>7
<1>9. ASSUME NEW i \in 1..Len(Assist!Exchange(calls)),
             Assist!IsLight(Assist!Exchange(calls)[i]), Assist!Exchange(calls)[i].ok
      PROVE  Assist!Exchange(calls)[i].light = Assist!Changed(calls)
  <2>1. i \in 2..Len(calls) + 1 /\ i - 1 \in 1..Len(calls)
    BY <1>1, <1>3, <1>8, <1>9
  <2>2. Assist!Exchange(calls)[i] = tool(calls[i - 1])
    <3>1. Assist!Exchange(calls)[i] = tools[i - 1]
      BY <1>1, <1>8, <2>1
    <3>2. tools[i - 1] = tool(calls[i - 1])
      BY <1>5, <2>1, Zenon
    <3> QED
      BY <3>1, <3>2
  <2>3. Did(calls[i - 1]) /\ Assist!Exchange(calls)[i].light = calls[i - 1].light
    BY <1>1, <1>4, <1>9, <2>1, <2>2
  <2> QED
    BY <2>1, <2>3, ChangedIs
<1> QED
  BY <1>1, <1>3, <1>8, <1>9

-----------------------------------------------------------------------------
LEMMA UsedIs ==
  ASSUME NEW a \in Assist!Exchanges, NEW tools
  PROVE  Assist!Used(a, tools) <=> \E i \in 1..Len(a.calls) : a.calls[i].tool \in tools
<1>1. DOMAIN a.calls = 1..Len(a.calls)
  BY DEF Assist!Exchanges
<1> QED
  BY <1>1 DEF Assist!Used, Assist!ToSet

\* Whether a light is warranted is settled when the request begins.
LEMMA SameWarrant ==
  ASSUME NEW a, NEW b, b.touched = a.touched, b.text = a.text, b.heard = a.heard,
         b.session = a.session,
         \A i \in 1..Len(a.touched) : Assist!Warranted(a, a.touched[i])
  PROVE  \A i \in 1..Len(b.touched) : Assist!Warranted(b, b.touched[i])
BY DEF Assist!Warranted

LEMMA IdleIs ==
  ASSUME Assist!BoundsAssumption, NEW reply \in {Assist!None, "given", "denied"}
  PROVE  /\ Assist!Idle \in Assist!Exchanges /\ Conducted(Assist!Idle)
         /\ Len(Assist!Idle.calls) <= MaxCalls
         /\ [Assist!Idle EXCEPT !.reply = reply] \in Assist!Exchanges
         /\ Conducted([Assist!Idle EXCEPT !.reply = reply])
         /\ Len([Assist!Idle EXCEPT !.reply = reply].calls) <= MaxCalls
         /\ Assist!Idle.phase = "idle" /\ Assist!Idle.calls = <<>>
         /\ Assist!Idle.touched = <<>> /\ Assist!Idle.reply = Assist!None
<1>1. /\ Assist!Idle.phase = "idle" /\ Assist!Idle.calls = <<>>
      /\ Assist!Idle.touched = <<>> /\ Assist!Idle.reply = Assist!None
      /\ Assist!Idle.referent = Assist!None
  BY DEF Assist!Idle
<1>2. Assist!Idle \in Assist!Exchanges
  BY DEF Assist!Idle, Assist!Exchanges
<1>3. [Assist!Idle EXCEPT !.reply = reply] \in Assist!Exchanges
      /\ [Assist!Idle EXCEPT !.reply = reply].phase = "idle"
      /\ [Assist!Idle EXCEPT !.reply = reply].calls = <<>>
      /\ [Assist!Idle EXCEPT !.reply = reply].touched = <<>>
      /\ [Assist!Idle EXCEPT !.reply = reply].referent = Assist!None
  BY <1>1, <1>2 DEF Assist!Exchanges
<1>4. \A a \in Assist!Exchanges :
        /\ a.phase = "idle" /\ a.calls = <<>> /\ a.touched = <<>> /\ a.referent = Assist!None
        => Conducted(a) /\ Len(a.calls) <= MaxCalls
  BY DEF Conducted, Assist!BoundsAssumption
<1> QED
  BY <1>1, <1>2, <1>3, <1>4

\* A request goes on, and nothing is stored.
LEMMA GoesOn ==
  ASSUME AssistInv, NEW q \in Requests, NEW a \in Assist!Exchanges,
         asked' = [asked EXCEPT ![q] = a], Len(a.calls) <= MaxCalls, Conducted(a),
         UNCHANGED last, talks' \in 0..MaxTalks,
         sessions' \in [Sessions -> [status: {"free", "active", "closed"},
                                     turns: Seq(Assist!TurnRows)]],
         \A s \in Sessions : sessions'[s].turns = sessions[s].turns
  PROVE  AssistInv'
<1>1. /\ asked' \in [Requests -> Assist!Exchanges]
      /\ \A r \in Requests : asked'[r] = IF r = q THEN a ELSE asked[r]
  BY DEF AssistInv, Assist!TypeOK
<1>2. ASSUME NEW r \in Requests PROVE Conducted(asked'[r]) /\ Len(asked'[r].calls) <= MaxCalls
  <2>1. CASE r = q
    BY <1>1, <2>1
  <2>2. CASE r # q
    BY <1>1, <2>2 DEF AssistInv, Assist!TypeOK
  <2> QED
    BY <2>1, <2>2
<1>3. \A r \in Requests : Conducted(asked'[r]) = Conducted(asked[r])'
  BY DEF Conducted
<1> QED
  BY <1>1, <1>2, <1>3 DEF AssistInv, Assist!TypeOK, Referring

\* An exchange, or the first turns of it, is stored in an active session.
LEMMA Storing ==
  ASSUME Assist!BoundsAssumption, AssistInv, NEW s \in Sessions,
         NEW more \in Seq(Assist!TurnRows),
         NEW light \in Lights \cup {Assist!None}, more # <<>>, more[1].role = "user",
         \A i \in 1..Len(more) : Assist!IsLight(more[i]) /\ more[i].ok => more[i].light = light,
         sessions' = [sessions EXCEPT ![s].turns = Assist!Kept(@ \o more)],
         last' = [last EXCEPT ![s] = light]
  PROVE  /\ sessions' \in [Sessions -> [status: {"free", "active", "closed"},
                                        turns: Seq(Assist!TurnRows)]]
         /\ \A r \in Sessions : Len(sessions'[r].turns) <= MaxTurns
         /\ last' \in [Sessions -> Lights \cup {Assist!None}]
         /\ Referring'
<1> DEFINE new == Assist!Kept(sessions[s].turns \o more)
<1>1. sessions[s].turns \in Seq(Assist!TurnRows)
  BY DEF AssistInv, Assist!TypeOK
<1>2. sessions[s].turns \o more \in Seq(Assist!TurnRows)
  BY <1>1
<1>3. new \in Seq(Assist!TurnRows) /\ Len(new) <= MaxTurns
  BY <1>2, KeptIs
<1>4. Assist!Referent(new) \in {Assist!None, light}
  BY <1>1, ReferentAfter
<1>5. sessions' = [sessions EXCEPT ![s] = [sessions[s] EXCEPT !.turns = new]]
  OBVIOUS
<1> HIDE DEF new
<1>6. /\ [sessions[s] EXCEPT !.turns = new] \in [status: {"free", "active", "closed"},
                                                 turns: Seq(Assist!TurnRows)]
      /\ [sessions[s] EXCEPT !.turns = new].turns = new
  BY <1>3 DEF AssistInv, Assist!TypeOK
<1>7. /\ sessions' \in [Sessions -> [status: {"free", "active", "closed"},
                                     turns: Seq(Assist!TurnRows)]]
      /\ \A r \in Sessions : sessions'[r].turns = IF r = s THEN new ELSE sessions[r].turns
  BY <1>5, <1>6 DEF AssistInv, Assist!TypeOK
<1>8. /\ last' \in [Sessions -> Lights \cup {Assist!None}]
      /\ \A r \in Sessions : last'[r] = IF r = s THEN light ELSE last[r]
  BY DEF AssistInv, Assist!TypeOK
<1>9. Referring'
  <2> SUFFICES ASSUME NEW r \in Sessions
               PROVE Assist!Referent(sessions'[r].turns) \in {Assist!None, last'[r]}
    BY Zenon DEF Referring, Assist!Referent, Assist!IsLight
  <2>1. CASE r = s
    <3>1. sessions'[r].turns = new /\ last'[r] = light
      BY <1>7, <1>8, <2>1, Zenon
    <3> QED
      BY <1>4, <3>1, Zenon
  <2>2. CASE r # s
    <3>1. sessions'[r].turns = sessions[r].turns /\ last'[r] = last[r]
      BY <1>7, <1>8, <2>2, Zenon
    <3>2. Assist!Referent(sessions[r].turns) \in {Assist!None, last[r]}
      BY DEF AssistInv, Referring
    <3> QED
      BY <3>1, <3>2, Zenon
  <2> QED
    BY <2>1, <2>2
<1> QED
  BY <1>3, <1>7, <1>8, <1>9 DEF AssistInv, Assist!TypeOK

\* A request concludes.
LEMMA Concluding ==
  ASSUME Assist!BoundsAssumption, AssistInv, NEW q \in Requests, NEW a \in Assist!Exchanges,
         Conducted(a),
         a.session \in Sessions, NEW calls \in {a.calls, <<>>},
         NEW reply \in {"given", "denied"},
         Assist!Conclude(q, a, calls, reply), talks' \in 0..MaxTalks
  PROVE  AssistInv'
<1>1. /\ Assist!Idle \in Assist!Exchanges /\ Conducted(Assist!Idle)
      /\ Len(Assist!Idle.calls) <= MaxCalls
      /\ [Assist!Idle EXCEPT !.reply = reply] \in Assist!Exchanges
      /\ Conducted([Assist!Idle EXCEPT !.reply = reply])
      /\ Len([Assist!Idle EXCEPT !.reply = reply].calls) <= MaxCalls
  BY IdleIs
<1>2. CASE sessions[a.session].status = "active"
  <2> DEFINE s == a.session
             more == Assist!Exchange(calls)
  <2>1. /\ a.calls \in Seq(Assist!Calls) /\ <<>> \in Seq(Assist!Calls) /\ Len(<<>>) = 0
        /\ calls \in Seq(Assist!Calls)
    <3>1. a.calls \in Seq(Assist!Calls) /\ <<>> \in Seq(Assist!Calls) /\ Len(<<>>) = 0
      BY EmptySeq DEF Assist!Exchanges
    <3> QED
      BY <3>1
  <2>2. /\ \A i, j \in 1..Len(a.calls) :
             Did(a.calls[i]) /\ Did(a.calls[j]) => a.calls[i].light = a.calls[j].light
        /\ \A i, j \in 1..Len(calls) :
             Did(calls[i]) /\ Did(calls[j]) => calls[i].light = calls[j].light
    <3>1. \A i, j \in 1..Len(a.calls) :
            Did(a.calls[i]) /\ Did(a.calls[j]) => a.calls[i].light = a.calls[j].light
      BY Zenon DEF Conducted
    <3>2. CASE calls = a.calls
      BY <3>1, <3>2
    <3>3. CASE calls = <<>>
      <4>1. \A i \in 1..Len(calls) : FALSE
        BY <2>1, <3>3
      <4> QED
        BY <3>1, <4>1, Zenon
    <3> QED
      BY <3>2, <3>3
  <2>3. Assist!Changed(a.calls) \in Lights \cup {Assist!None}
    BY <2>1, ChangedIs
  <2>4. /\ more \in Seq(Assist!TurnRows) /\ more # <<>> /\ more[1].role = "user"
        /\ \A i \in 1..Len(more) :
             Assist!IsLight(more[i]) /\ more[i].ok => more[i].light = Assist!Changed(calls)
    BY <2>1, <2>2, ExchangeIs, LenProperties, EmptySeq
  <2> HIDE DEF more
  <2>5. \A i \in 1..Len(more) :
          Assist!IsLight(more[i]) /\ more[i].ok => more[i].light = Assist!Changed(a.calls)
    <3>1. CASE calls = a.calls
      BY <2>4, <3>1
    <3>2. CASE calls = <<>>
      <4>1. Len(more) = 2 /\ more = Assist!Exchange(<<>>)
        <5>1. more = Assist!Exchange(<<>>)
          BY <3>2 DEF more
        <5>2. Len(Assist!Exchange(<<>>)) = Len(<<>>) + 2
          BY <2>1, <2>2, <3>2, ExchangeIs, Zenon
        <5> QED
          BY <2>1, <5>1, <5>2
      <4>2. ~Assist!IsLight(more[1]) /\ ~Assist!IsLight(more[2])
        BY <4>1 DEF Assist!Exchange, Assist!IsLight, Assist!Turn
      <4> QED
        BY <4>1, <4>2
    <3> QED
      BY <3>1, <3>2
  <2>6. /\ sessions' = [sessions EXCEPT ![s].turns = Assist!Kept(@ \o more)]
        /\ last' = [last EXCEPT ![s] = Assist!Changed(a.calls)]
        /\ asked' = [asked EXCEPT ![q] = [Assist!Idle EXCEPT !.reply = reply]]
    BY <1>2 DEF Assist!Conclude, more
  <2>7. /\ sessions' \in [Sessions -> [status: {"free", "active", "closed"},
                                       turns: Seq(Assist!TurnRows)]]
        /\ \A r \in Sessions : Len(sessions'[r].turns) <= MaxTurns
        /\ last' \in [Sessions -> Lights \cup {Assist!None}]
        /\ Referring'
    BY <2>3, <2>4, <2>5, <2>6, Storing
  <2>8. asked' \in [Requests -> Assist!Exchanges]
        /\ \A r \in Requests :
             asked'[r] = IF r = q THEN [Assist!Idle EXCEPT !.reply = reply] ELSE asked[r]
    BY <1>1, <2>6 DEF AssistInv, Assist!TypeOK
  <2>9. \A r \in Requests : Conducted(asked'[r]) /\ Len(asked'[r].calls) <= MaxCalls
    BY <1>1, <2>8 DEF AssistInv, Assist!TypeOK
  <2>10. \A r \in Requests : Conducted(asked[r])'
    BY <2>9 DEF Conducted, Assist!Used
  <2> QED
    BY <2>7, <2>8, <2>9, <2>10 DEF AssistInv, Assist!TypeOK
<1>3. CASE sessions[a.session].status # "active"
  <2>1. asked' = [asked EXCEPT ![q] = Assist!Idle] /\ UNCHANGED <<sessions, last>>
    BY <1>3 DEF Assist!Conclude
  <2> QED
    BY <1>1, <2>1, GoesOn DEF AssistInv, Assist!TypeOK
<1> QED
  BY <1>2, <1>3

\* A request that continues with what its own record becomes.
LEMMA Continuing ==
  ASSUME AssistInv, NEW q \in Requests, NEW a \in Assist!Exchanges, Assist!Continue(q, a),
         Len(a.calls) <= MaxCalls, Conducted(a), talks' \in 0..MaxTalks
  PROVE  AssistInv'
BY GoesOn DEF Assist!Continue, AssistInv, Assist!TypeOK

LEMMA GivingUp ==
  ASSUME Assist!BoundsAssumption, AssistInv, NEW q \in Requests, Assist!GiveUp(q),
         talks' \in 0..MaxTalks
  PROVE  AssistInv'
BY IdleIs, Continuing DEF Assist!GiveUp

\* What a refused call leaves.
LEMMA NothingDoneIs ==
  ASSUME Assist!BoundsAssumption, NEW a \in Assist!Exchanges, Conducted(a), a.phase # "idle",
         Len(a.calls) < MaxCalls, NEW tool \in Assist!Tools
  PROVE  /\ Assist!NothingDone(a, tool) \in Assist!Exchanges
         /\ Conducted(Assist!NothingDone(a, tool))
         /\ Len(Assist!NothingDone(a, tool).calls) <= MaxCalls
         /\ Assist!NothingDone(a, tool).reply = Assist!None
<1> DEFINE b == Assist!NothingDone(a, tool)
           call == Assist!Call(tool, Assist!None, FALSE)
<1>1. call \in Assist!Calls /\ ~Did(call)
  BY DEF Assist!Call, Assist!Calls, Did
<1>2. a.calls \in Seq(Assist!Calls)
  BY DEF Assist!Exchanges
<1> DEFINE calls == Append(a.calls, call)
<1>3. calls \in Seq(Assist!Calls)
  BY <1>1, <1>2, AppendProperties
<1>4. b = [a EXCEPT !.phase = "model", !.tool = Assist!None, !.calls = calls]
  BY DEF Assist!NothingDone
<1> HIDE DEF b, calls
<1>5. /\ b \in Assist!Exchanges /\ b.calls = calls /\ b.phase = "model"
      /\ b.touched = a.touched /\ b.session = a.session /\ b.reply = a.reply
      /\ b.referent = a.referent /\ b.heard = a.heard /\ b.text = a.text
  BY <1>3, <1>4 DEF Assist!Exchanges
<1> HIDE DEF call
<1>6. b.calls = Append(a.calls, call)
  BY <1>5 DEF calls
<1>7. /\ Len(b.calls) = Len(a.calls) + 1 /\ Len(a.calls) \in Nat
      /\ \A i \in 1..Len(b.calls) : b.calls[i] = IF i <= Len(a.calls) THEN a.calls[i] ELSE call
  BY <1>1, <1>2, <1>6
<1>8. Assist!Used(a, {"control_light"}) => Assist!Used(b, {"control_light"})
  BY <1>5, <1>7, UsedIs
<1>9. \A i \in 1..Len(b.calls) :
        Did(b.calls[i]) => i \in 1..Len(a.calls) /\ b.calls[i] = a.calls[i]
  BY <1>1, <1>7
<1>10. Len(b.calls) <= MaxCalls
  BY <1>7 DEF Assist!BoundsAssumption
<1>11. Conducted(b)
  <2>1. \A i, j \in 1..Len(b.calls) :
          Did(b.calls[i]) /\ Did(b.calls[j]) => b.calls[i].light = b.calls[j].light
    BY <1>9 DEF Conducted
  <2>2. \A i \in 1..Len(b.calls) : Did(b.calls[i]) => b.calls[i].light # Assist!None
    BY <1>9 DEF Conducted
  <2>3. \A i \in 1..Len(b.touched) : Assist!Warranted(b, b.touched[i])
    BY <1>5, SameWarrant, Zenon DEF Conducted
  <2> QED
    BY <1>5, <1>8, <2>1, <2>2, <2>3 DEF Conducted
<1> QED
  BY <1>5, <1>10, <1>11 DEF b, Conducted

-----------------------------------------------------------------------------
\* A request begins with what its session said last.
Beginning(s, text) == [Assist!Idle EXCEPT !.session = s, !.text = text,
                                   !.referent = Assist!Referent(sessions[s].turns),
                                   !.heard = last[s]]

LEMMA BegunIs ==
  ASSUME Assist!BoundsAssumption, AssistInv, NEW s \in Sessions, NEW text \in Texts
  PROVE  LET a == Beginning(s, text) IN
         /\ a \in Assist!Exchanges /\ Conducted(a) /\ Len(a.calls) <= MaxCalls
         /\ a.session = s
         /\ Assist!Routed(a) \in Assist!Exchanges /\ Conducted(Assist!Routed(a))
         /\ Len(Assist!Routed(a).calls) <= MaxCalls
         /\ Assist!Routed(a).reply = Assist!None
<1> DEFINE a == Beginning(s, text)
           r == Assist!Referent(sessions[s].turns)
<1>1. last[s] \in Lights \cup {Assist!None} /\ r \in {Assist!None, last[s]}
  BY DEF AssistInv, Assist!TypeOK, Referring
<1>2. /\ Assist!Idle \in Assist!Exchanges /\ Assist!Idle.phase = "idle"
      /\ Assist!Idle.calls = <<>> /\ Assist!Idle.touched = <<>>
      /\ Assist!Idle.reply = Assist!None
  BY IdleIs
<1>3. r \in {Assist!None, last[s]} /\ r \in Lights \cup {Assist!None}
  BY <1>1
<1>4. a = [Assist!Idle EXCEPT !.session = s, !.text = text, !.referent = r, !.heard = last[s]]
  BY DEF Beginning
<1> HIDE DEF a, r
<1>5. /\ a \in Assist!Exchanges /\ a.session = s /\ a.calls = <<>> /\ a.touched = <<>>
      /\ a.reply = Assist!None
      /\ a.referent = r /\ a.heard = last[s] /\ a.phase = "idle"
  <2>1. a \in Assist!Exchanges
    BY <1>1, <1>2, <1>3, <1>4 DEF Assist!Exchanges
  <2>2. a.session = s /\ a.referent = r /\ a.heard = last[s]
    BY <1>2, <1>4 DEF Assist!Exchanges
  <2>3. a.calls = <<>> /\ a.touched = <<>> /\ a.reply = Assist!None /\ a.phase = "idle"
    BY <1>2, <1>4 DEF Assist!Exchanges
  <2> QED
    BY <2>1, <2>2, <2>3
<1>6. \A p \in {"model", "home"} :
        LET b == [a EXCEPT !.phase = p] IN
        /\ b \in Assist!Exchanges /\ b.session = s /\ b.calls = <<>> /\ b.touched = <<>>
        /\ b.reply = Assist!None /\ b.referent = r /\ b.heard = last[s] /\ b.phase = p
  BY <1>5 DEF Assist!Exchanges
<1>7. \A b \in Assist!Exchanges :
        /\ b.phase # "tool" /\ b.session = s /\ b.calls = <<>> /\ b.touched = <<>>
        /\ b.reply = Assist!None /\ b.referent = r /\ b.heard = last[s]
        => Conducted(b) /\ Len(b.calls) <= MaxCalls
  BY <1>3 DEF Conducted, Assist!BoundsAssumption
<1>8. \/ Assist!Routed(a) = [a EXCEPT !.phase = "model"]
      \/ Assist!Routed(a) = [a EXCEPT !.phase = "home"]
  BY DEF Assist!Routed
<1> QED
  BY <1>5, <1>6, <1>7, <1>8 DEF a

\* The first text of a session is refused.
Refusing(q, s) ==
  /\ UNCHANGED last
  /\ sessions' = [sessions EXCEPT ![s] = [status |-> "active",
                                         turns |-> Assist!Kept(Assist!Exchange(<<>>))]]
  /\ asked' = [asked EXCEPT ![q] = [Assist!Idle EXCEPT !.reply = "given"]]

LEMMA RefusingKeeps ==
  ASSUME Assist!BoundsAssumption, AssistInv, NEW q \in Requests, NEW s \in Sessions,
         Refusing(q, s), talks' \in 0..MaxTalks
  PROVE  AssistInv'
<1> DEFINE more == Assist!Exchange(<<>>)
           new == Assist!Kept(more)
           a == [Assist!Idle EXCEPT !.reply = "given"]
<1>1. a \in Assist!Exchanges /\ Conducted(a) /\ Len(a.calls) <= MaxCalls
  BY IdleIs
<1>2. /\ <<>> \in Seq(Assist!Calls) /\ Len(<<>>) = 0 /\ <<>> \in Seq(Assist!TurnRows)
  BY EmptySeq
<1>3. more \in Seq(Assist!TurnRows) /\ Len(more) = 2 /\ more[1].role = "user"
  <2>1. \A i, j \in 1..Len(<<>>) :
          Did(<<>>[i]) /\ Did(<<>>[j]) => <<>>[i].light = <<>>[j].light
    BY <1>2
  <2>2. /\ more \in Seq(Assist!TurnRows) /\ more[1].role = "user"
        /\ Len(more) = Len(<<>>) + 2
    BY <1>2, <2>1, ExchangeIs, Zenon
  <2> QED
    BY <1>2, <2>2
<1>4. ~Assist!IsLight(more[1]) /\ ~Assist!IsLight(more[2])
  BY <1>3 DEF Assist!Exchange, Assist!IsLight, Assist!Turn
<1> HIDE DEF more
<1>5. new \in Seq(Assist!TurnRows) /\ Len(new) <= MaxTurns
  BY <1>3, KeptIs
<1>6. Assist!Referent(new) \in {Assist!None, last[s]}
  <2>1. <<>> \o more = more
    BY <1>3, ConcatEmptySeq
  <2>2. more # <<>> /\ \A i \in 1..Len(more) : ~Assist!IsLight(more[i])
    <3>1. \A i \in 1..Len(more) : i = 1 \/ i = 2
      BY <1>3
    <3>2. more # <<>>
      BY <1>3, LenProperties, EmptySeq
    <3> QED
      BY <1>4, <3>1, <3>2, Zenon
  <2>3. Assist!Referent(Assist!Kept(<<>> \o more)) \in {Assist!None, last[s]}
    BY <1>2, <1>3, <2>2, ReferentAfter
  <2> QED
    BY <2>1, <2>3
<1>7. /\ sessions' \in [Sessions -> [status: {"free", "active", "closed"},
                                     turns: Seq(Assist!TurnRows)]]
      /\ \A r \in Sessions : sessions'[r].turns = IF r = s THEN new ELSE sessions[r].turns
  <2>1. [status |-> "active", turns |-> new] \in [status: {"free", "active", "closed"},
                                                 turns: Seq(Assist!TurnRows)]
    BY <1>5
  <2>2. sessions' = [sessions EXCEPT ![s] = [status |-> "active", turns |-> new]]
    BY DEF Refusing, more
  <2> HIDE DEF new
  <2> QED
    BY <2>1, <2>2 DEF AssistInv, Assist!TypeOK
<1> HIDE DEF new, a
<1>8. Referring'
  <2> SUFFICES ASSUME NEW r \in Sessions
               PROVE Assist!Referent(sessions'[r].turns) \in {Assist!None, last'[r]}
    BY Zenon DEF Referring, Assist!Referent, Assist!IsLight
  <2>1. last'[r] = last[r] /\ Assist!Referent(sessions[r].turns) \in {Assist!None, last[r]}
    BY DEF Refusing, AssistInv, Referring
  <2> QED
    BY <1>6, <1>7, <2>1
<1>9. /\ asked' \in [Requests -> Assist!Exchanges]
      /\ \A r \in Requests : asked'[r] = IF r = q THEN a ELSE asked[r]
  <2>1. asked' = [asked EXCEPT ![q] = a]
    BY DEF Refusing, a
  <2> QED
    BY <1>1, <2>1 DEF AssistInv, Assist!TypeOK
<1>10. \A r \in Requests : Conducted(asked'[r]) /\ Len(asked'[r].calls) <= MaxCalls
  BY <1>1, <1>9 DEF AssistInv, Assist!TypeOK
<1>11. \A r \in Requests : Conducted(asked[r])'
  BY <1>10 DEF Conducted, Assist!Used, Assist!Warranted
<1>12. /\ UNCHANGED last
       /\ \A r \in Sessions : Len(sessions'[r].turns) <= MaxTurns
  BY <1>5, <1>7 DEF Refusing, AssistInv, Assist!TypeOK
<1> QED
  BY <1>7, <1>8, <1>9, <1>10, <1>11, <1>12 DEF AssistInv, Assist!TypeOK

LEMMA BeginKeeps ==
  ASSUME Assist!BoundsAssumption, AssistInv, NEW q \in Requests, NEW s \in Sessions,
         NEW text \in Texts,
         Assist!Begin(q, s, text)
  PROVE  AssistInv'
<1> DEFINE a == Beginning(s, text)
           b == Assist!Routed(a)
<1>1. /\ a \in Assist!Exchanges /\ Conducted(a) /\ Len(a.calls) <= MaxCalls
      /\ a.session = s
      /\ b \in Assist!Exchanges /\ Conducted(b) /\ Len(b.calls) <= MaxCalls
  BY BegunIs
<1>2. talks' \in 0..MaxTalks
  BY DEF Assist!Begin, AssistInv, Assist!TypeOK, Assist!BoundsAssumption
<1>3. \/ Assist!Continue(q, b) \/ Assist!Conclude(q, a, <<>>, "given")
      \/ /\ UNCHANGED last /\ sessions' = [sessions EXCEPT ![s].status = "active"]
         /\ asked' = [asked EXCEPT ![q] = b]
      \/ Refusing(q, s)
  BY DEF Assist!Begin, Beginning, Refusing
<1> HIDE DEF a, b
<1>4. CASE Assist!Continue(q, b)
  BY <1>1, <1>2, <1>4, Continuing
<1>5. CASE Assist!Conclude(q, a, <<>>, "given")
  BY <1>1, <1>2, <1>5, Concluding
<1>6. CASE /\ UNCHANGED last /\ sessions' = [sessions EXCEPT ![s].status = "active"]
           /\ asked' = [asked EXCEPT ![q] = b]
  <2>1. /\ sessions' \in [Sessions -> [status: {"free", "active", "closed"},
                                       turns: Seq(Assist!TurnRows)]]
        /\ \A r \in Sessions : sessions'[r].turns = sessions[r].turns
    BY <1>6 DEF AssistInv, Assist!TypeOK
  <2> QED
    BY <1>1, <1>2, <1>6, <2>1, GoesOn
<1> QED
  BY <1>1, <1>2, <1>3, <1>4, <1>5, <1>6, RefusingKeeps

\* A request that is under way.
LEMMA UnderWay ==
  ASSUME AssistInv, NEW q \in Requests
  PROVE  /\ asked[q] \in Assist!Exchanges /\ Conducted(asked[q])
         /\ Len(asked[q].calls) <= MaxCalls
         /\ asked[q].phase # "idle" =>
              asked[q].session \in Sessions /\ asked[q].reply = Assist!None
BY DEF AssistInv, Assist!TypeOK, Conducted

LEMMA AnswersKeep ==
  ASSUME Assist!BoundsAssumption, AssistInv, NEW q \in Requests,
         Assist!HomeAnswers(q) \/ Assist!ModelAnswers(q)
  PROVE  AssistInv'
<1>1. /\ asked[q] \in Assist!Exchanges /\ Conducted(asked[q]) /\ asked[q].session \in Sessions
  BY UnderWay DEF Assist!HomeAnswers, Assist!ModelAnswers
<1>2. Assist!Conclude(q, asked[q], asked[q].calls, "given") /\ talks' \in 0..MaxTalks
  BY DEF Assist!HomeAnswers, Assist!ModelAnswers, AssistInv, Assist!TypeOK
<1> QED
  BY <1>1, <1>2, Concluding

\* The request moves on without a call.
LEMMA MovedIs ==
  ASSUME NEW a \in Assist!Exchanges, Conducted(a), a.phase \in {"home", "model"},
         Len(a.calls) <= MaxCalls, NEW aloud \in BOOLEAN
  PROVE  LET b == [a EXCEPT !.phase = "model", !.speech = aloud] IN
         b \in Assist!Exchanges /\ Conducted(b) /\ Len(b.calls) <= MaxCalls
<1> DEFINE b == [a EXCEPT !.phase = "model", !.speech = aloud]
<1>1. /\ b \in Assist!Exchanges /\ b.calls = a.calls /\ b.phase = "model"
      /\ b.touched = a.touched
      /\ b.session = a.session /\ b.reply = a.reply /\ b.referent = a.referent
      /\ b.heard = a.heard /\ b.text = a.text
  BY DEF Assist!Exchanges
<1> HIDE DEF b
<1>2. \A i \in 1..Len(b.touched) : Assist!Warranted(b, b.touched[i])
  BY <1>1, SameWarrant, Zenon DEF Conducted
<1>3. Conducted(b) /\ Len(b.calls) <= MaxCalls
  BY <1>1, <1>2 DEF Conducted, Assist!Used
<1> QED
  BY <1>1, <1>3 DEF b

LEMMA HomeDoesNotKeeps ==
  ASSUME Assist!BoundsAssumption, AssistInv, NEW q \in Requests, Assist!HomeDoesNot(q)
  PROVE  AssistInv'
<1>1. /\ asked[q] \in Assist!Exchanges /\ Conducted(asked[q])
      /\ Len(asked[q].calls) <= MaxCalls
      /\ asked[q].phase = "home" /\ talks' \in 0..MaxTalks
  BY UnderWay DEF Assist!HomeDoesNot, AssistInv, Assist!TypeOK
<1>2. PICK aloud \in BOOLEAN :
        \/ Assist!GiveUp(q)
        \/ Assist!Continue(q, [asked[q] EXCEPT !.phase = "model", !.speech = aloud])
  BY DEF Assist!HomeDoesNot
<1>3. LET b == [asked[q] EXCEPT !.phase = "model", !.speech = aloud] IN
      b \in Assist!Exchanges /\ Conducted(b) /\ Len(b.calls) <= MaxCalls
  BY <1>1, MovedIs
<1> QED
  BY <1>1, <1>2, <1>3, Continuing, GivingUp

LEMMA ModelFailsKeeps ==
  ASSUME Assist!BoundsAssumption, AssistInv, NEW q \in Requests, Assist!ModelFails(q)
  PROVE  AssistInv'
<1>1. /\ asked[q] \in Assist!Exchanges /\ Conducted(asked[q]) /\ asked[q].session \in Sessions
      /\ talks' \in 0..MaxTalks
  BY UnderWay DEF Assist!ModelFails, AssistInv, Assist!TypeOK
<1>2. \/ \E calls \in {asked[q].calls, <<>>}, reply \in {"given", "denied"} :
           Assist!Conclude(q, asked[q], calls, reply)
      \/ Assist!GiveUp(q)
  BY DEF Assist!ModelFails, Assist!WithoutModel
<1> QED
  BY <1>1, <1>2, Concluding, GivingUp

\* The model is heard out: the call is refused, or it is what the request waits for.
LEMMA ModelCallsKeeps ==
  ASSUME Assist!BoundsAssumption, AssistInv, NEW q \in Requests, NEW tool \in Assist!Tools,
         Assist!ModelCalls(q, tool)
  PROVE  AssistInv'
<1> DEFINE a == asked[q]
           b == [a EXCEPT !.phase = "tool", !.tool = tool]
<1>1. /\ a \in Assist!Exchanges /\ Conducted(a) /\ a.phase = "model"
      /\ Len(a.calls) < MaxCalls /\ Len(a.calls) <= MaxCalls /\ talks' \in 0..MaxTalks
  BY UnderWay DEF Assist!ModelCalls, AssistInv, Assist!TypeOK
<1>2. \/ Assist!Continue(q, Assist!NothingDone(a, tool))
      \/ ~Assist!Blocked(a, tool) /\ Assist!Continue(q, b)
  BY DEF Assist!ModelCalls
<1>3. /\ b \in Assist!Exchanges /\ b.calls = a.calls /\ b.phase = "tool"
      /\ b.touched = a.touched
      /\ b.session = a.session /\ b.reply = a.reply /\ b.referent = a.referent
      /\ b.heard = a.heard /\ b.text = a.text /\ b.tool = tool
  BY <1>1 DEF Assist!Exchanges
<1> HIDE DEF a, b
<1>4. ~Assist!Blocked(a, tool) => Conducted(b)
  <2>1. \A i \in 1..Len(b.touched) : Assist!Warranted(b, b.touched[i])
    BY <1>1, <1>3, SameWarrant, Zenon DEF Conducted
  <2> QED
    BY <1>1, <1>3, <2>1 DEF Conducted, Assist!Used, Assist!Blocked
<1>5. CASE Assist!Continue(q, Assist!NothingDone(a, tool))
  <2>1. /\ Assist!NothingDone(a, tool) \in Assist!Exchanges
        /\ Conducted(Assist!NothingDone(a, tool))
        /\ Len(Assist!NothingDone(a, tool).calls) <= MaxCalls
    BY <1>1, NothingDoneIs
  <2> QED
    BY <1>1, <1>5, <2>1, Continuing
<1>6. CASE ~Assist!Blocked(a, tool) /\ Assist!Continue(q, b)
  <2>1. Len(b.calls) <= MaxCalls
    BY <1>1, <1>3
  <2> QED
    BY <1>1, <1>3, <1>4, <1>6, <2>1, Continuing
<1> QED
  BY <1>2, <1>5, <1>6

\* A tool that changes nothing, or does so beside the lights.
LEMMA RefusalsKeep ==
  ASSUME Assist!BoundsAssumption, AssistInv, NEW q \in Requests,
         Assist!LightRefused(q) \/ Assist!HomeActs(q) \/ Assist!MediaActs(q)
  PROVE  AssistInv'
<1>1. /\ asked[q] \in Assist!Exchanges /\ Conducted(asked[q]) /\ asked[q].phase = "tool"
      /\ Len(asked[q].calls) < MaxCalls /\ talks' \in 0..MaxTalks
  BY UnderWay DEF Assist!LightRefused, Assist!HomeActs, Assist!MediaActs, Conducted,
     AssistInv, Assist!TypeOK
<1>2. PICK tool \in Assist!Tools :
        Assist!GiveUp(q) \/ Assist!Continue(q, Assist!NothingDone(asked[q], tool))
  BY DEF Assist!LightRefused, Assist!HomeActs, Assist!MediaActs, Assist!Tools
<1>3. /\ Assist!NothingDone(asked[q], tool) \in Assist!Exchanges
      /\ Conducted(Assist!NothingDone(asked[q], tool))
      /\ Len(Assist!NothingDone(asked[q], tool).calls) <= MaxCalls
  BY <1>1, NothingDoneIs
<1>4. CASE Assist!GiveUp(q)
  BY <1>1, <1>4, GivingUp
<1>5. CASE Assist!Continue(q, Assist!NothingDone(asked[q], tool))
  BY <1>1, <1>3, <1>5, Continuing
<1> QED
  BY <1>2, <1>4, <1>5

\* An exchange after its call to a light.
Acted(a, light, ok) ==
  [a EXCEPT !.phase = "model", !.tool = Assist!None,
            !.touched = Append(@, light),
            !.calls = Append(@, Assist!Call("control_light", light, ok))]

\* The light is the first that the request reaches for.
LEMMA ActedIs ==
  ASSUME Assist!BoundsAssumption, NEW a \in Assist!Exchanges, Conducted(a), a.phase = "tool",
         a.tool = "control_light", NEW light \in Lights, Assist!Grounded(a, light),
         NEW ok \in BOOLEAN
  PROVE  /\ Acted(a, light, ok) \in Assist!Exchanges /\ Conducted(Acted(a, light, ok))
         /\ Len(Acted(a, light, ok).calls) <= MaxCalls /\ Acted(a, light, ok).reply = a.reply
<1> DEFINE b == Acted(a, light, ok)
           call == Assist!Call("control_light", light, ok)
           calls == Append(a.calls, call)
           touched == Append(a.touched, light)
<1>1. /\ call \in Assist!Calls /\ call.tool = "control_light" /\ call.light = light
      /\ light # Assist!None
  BY DEF Assist!Call, Assist!Calls, Assist!Tools, Assist!BoundsAssumption
<1> HIDE DEF call
<1>2. a.calls \in Seq(Assist!Calls) /\ a.touched \in Seq(Lights)
  BY DEF Assist!Exchanges
<1>3. /\ calls \in Seq(Assist!Calls) /\ Len(calls) = Len(a.calls) + 1 /\ Len(a.calls) \in Nat
      /\ \A i \in 1..Len(calls) : calls[i] = IF i <= Len(a.calls) THEN a.calls[i] ELSE call
  BY <1>1, <1>2
<1>4. touched \in Seq(Lights)
  BY <1>2
<1>5. /\ Len(a.calls) < MaxCalls /\ ~Assist!Used(a, {"control_light"}) /\ a.touched = <<>>
      /\ a.session \in Sessions /\ a.reply = Assist!None
  <2>1. /\ Len(a.touched) \in Nat /\ Len(a.touched) <= 1
        /\ (a.touched # <<>> => Assist!Used(a, {"control_light"}))
    BY <1>2 DEF Conducted
  <2> QED
    BY <2>1 DEF Conducted
<1>6. Len(touched) = 1 /\ touched[1] = light /\ touched # <<>>
  BY <1>2, <1>5
<1>7. b = [a EXCEPT !.phase = "model", !.tool = Assist!None, !.touched = touched,
           !.calls = calls]
  BY DEF Acted, call
<1> HIDE DEF b, calls, touched
<1>8. /\ b \in Assist!Exchanges /\ b.calls = calls /\ b.phase = "model" /\ b.touched = touched
      /\ b.session = a.session /\ b.reply = a.reply /\ b.referent = a.referent
      /\ b.heard = a.heard /\ b.text = a.text
  BY <1>3, <1>4, <1>7 DEF Assist!Exchanges
<1>9. \A i \in 1..Len(a.calls) : a.calls[i].tool # "control_light"
  BY <1>5, UsedIs
<1>10. \A i \in 1..Len(calls) : Did(calls[i]) => i = Len(calls) /\ calls[i] = call
  BY <1>3, <1>9 DEF Did
<1>11. Assist!Used(b, {"control_light"})
  <2>1. Len(calls) \in 1..Len(b.calls) /\ b.calls[Len(calls)].tool = "control_light"
    BY <1>1, <1>3, <1>8
  <2>2. b \in Assist!Exchanges
    BY <1>8
  <2>3. Assist!Used(b, {"control_light"}) <=> \E i \in 1..Len(b.calls) :
                                                b.calls[i].tool \in {"control_light"}
    BY <2>2, UsedIs
  <2> QED
    BY <2>1, <2>3
<1>12. Len(b.calls) <= MaxCalls
  BY <1>3, <1>5, <1>8 DEF Assist!BoundsAssumption
<1>13. Assist!Warranted(b, light)
  <2>1. a.referent \in {Assist!None, a.heard}
    BY Zenon DEF Conducted
  <2>2. Assist!Warranted(a, light)
    BY <1>1, <2>1 DEF Assist!Grounded, Assist!Governed, Assist!Warranted
  <2> QED
    BY <1>8, <2>2 DEF Assist!Warranted
<1>14. /\ \A i, j \in 1..Len(b.calls) :
            Did(b.calls[i]) /\ Did(b.calls[j]) => b.calls[i].light = b.calls[j].light
       /\ \A i \in 1..Len(b.calls) : Did(b.calls[i]) => b.calls[i].light # Assist!None
  BY <1>1, <1>8, <1>10
<1>15. b.referent \in {Assist!None, b.heard}
  BY <1>8 DEF Conducted
<1>16. /\ b.phase # "idle" => b.session \in Sessions /\ b.reply = Assist!None
       /\ b.phase = "tool" => Len(b.calls) < MaxCalls
       /\ (b.phase = "tool" /\ b.tool = "control_light") => ~Assist!Used(b, {"control_light"})
  BY <1>5, <1>8
<1>17. Len(b.touched) <= 1 /\ (b.touched # <<>> => Assist!Used(b, {"control_light"}))
  <2>1. b.touched = touched
    BY <1>8
  <2>2. Len(b.touched) = 1
    BY <1>6, <2>1, Zenon
  <2> QED
    BY <1>11, <2>2
<1>18. \A i \in 1..Len(b.touched) : Assist!Warranted(b, b.touched[i])
  <2>1. b.touched = touched
    BY <1>8
  <2>2. b.touched[1] = light
    BY <1>6, <2>1
  <2>3. \A i \in 1..Len(touched) : i = 1
    BY <1>6
  <2> QED
    BY <1>13, <2>1, <2>2, <2>3, Zenon
<1>19. Conducted(b)
  BY <1>14, <1>15, <1>16, <1>17, <1>18, Zenon DEF Conducted
<1>20. b.reply = a.reply
  BY <1>8
<1>21. b \in Assist!Exchanges
  BY <1>8
<1> QED
  BY <1>12, <1>19, <1>20, <1>21 DEF b

LEMMA LightActsKeeps ==
  ASSUME Assist!BoundsAssumption, AssistInv, NEW q \in Requests, NEW light \in Lights,
         Assist!LightActs(q, light)
  PROVE  AssistInv'
<1>1. /\ asked[q] \in Assist!Exchanges /\ Conducted(asked[q]) /\ asked[q].phase = "tool"
      /\ asked[q].tool = "control_light" /\ Assist!Grounded(asked[q], light)
      /\ talks' \in 0..MaxTalks
  BY UnderWay DEF Assist!LightActs, AssistInv, Assist!TypeOK
<1>2. PICK ok \in BOOLEAN :
        Assist!Continue(q, Acted(asked[q], light, ok))
  BY DEF Assist!LightActs, Acted
<1> DEFINE b == Acted(asked[q], light, ok)
<1>3. b \in Assist!Exchanges /\ Conducted(b) /\ Len(b.calls) <= MaxCalls
  BY <1>1, ActedIs
<1> QED
  BY <1>1, <1>2, <1>3, Continuing

LEMMA CloseKeeps ==
  ASSUME Assist!BoundsAssumption, AssistInv, NEW s \in Sessions, Assist!CloseSession(s)
  PROVE  AssistInv'
<1>1. /\ sessions' \in [Sessions -> [status: {"free", "active", "closed"},
                                     turns: Seq(Assist!TurnRows)]]
      /\ \A r \in Sessions : sessions'[r].turns = sessions[r].turns
      /\ UNCHANGED <<asked, last, talks>>
  BY DEF Assist!CloseSession, AssistInv, Assist!TypeOK
<1>2. \A r \in Requests : Conducted(asked[r])'
  BY <1>1 DEF AssistInv, Conducted, Assist!Used
<1>3. Referring'
  BY <1>1 DEF AssistInv, Referring
<1> QED
  BY <1>1, <1>2, <1>3 DEF AssistInv, Assist!TypeOK

\* All requests are gone.
LEMMA Stopped ==
  ASSUME Assist!BoundsAssumption, asked' = [r \in Requests |-> Assist!Idle]
  PROVE  /\ asked' \in [Requests -> Assist!Exchanges]
         /\ \A r \in Requests : Conducted(asked[r])' /\ Len(asked'[r].calls) <= MaxCalls
<1>1. /\ Assist!Idle \in Assist!Exchanges /\ Conducted(Assist!Idle)
      /\ Len(Assist!Idle.calls) <= MaxCalls
  BY IdleIs
<1>2. \A r \in Requests : Conducted(asked'[r])
  BY <1>1
<1>3. \A r \in Requests : Conducted(asked[r])'
  BY <1>2 DEF Conducted, Assist!Used, Assist!Warranted
<1> QED
  BY <1>1, <1>3

\* The first turns of an exchange are still about the light it changed.
LEMMA TornIs ==
  ASSUME Assist!BoundsAssumption, NEW calls \in Seq(Assist!Calls),
         NEW n \in 1..(Len(calls) + 1),
         \A i, j \in 1..Len(calls) :
           Did(calls[i]) /\ Did(calls[j]) => calls[i].light = calls[j].light
  PROVE  LET torn == SubSeq(Assist!Exchange(calls), 1, n) IN
         /\ torn \in Seq(Assist!TurnRows) /\ torn # <<>> /\ torn[1].role = "user"
         /\ \A i \in 1..Len(torn) :
              Assist!IsLight(torn[i]) /\ torn[i].ok => torn[i].light = Assist!Changed(calls)
<1> DEFINE all == Assist!Exchange(calls)
           torn == SubSeq(all, 1, n)
<1>1. /\ all \in Seq(Assist!TurnRows) /\ Len(all) = Len(calls) + 2 /\ all[1].role = "user"
      /\ \A i \in 1..Len(all) :
           Assist!IsLight(all[i]) /\ all[i].ok => all[i].light = Assist!Changed(calls)
      /\ Len(calls) \in Nat
  BY ExchangeIs, LenProperties
<1> HIDE DEF all
<1>2. \A i \in 1..n : all[i] \in Assist!TurnRows /\ i \in 1..Len(all)
  BY <1>1, ElementOfSeq
<1>3. /\ torn \in Seq(Assist!TurnRows) /\ Len(torn) = n /\ \A i \in 1..n : torn[i] = all[i]
  BY <1>1, <1>2, SubSeqProperties
<1> HIDE DEF torn
<1>4. torn # <<>> /\ 1 \in 1..n
  BY <1>3, EmptySeq
<1>5. /\ torn \in Seq(Assist!TurnRows) /\ torn # <<>> /\ torn[1].role = "user"
      /\ \A i \in 1..Len(torn) :
           Assist!IsLight(torn[i]) /\ torn[i].ok => torn[i].light = Assist!Changed(calls)
  BY <1>1, <1>2, <1>3, <1>4
<1> QED
  BY <1>5 DEF torn, all

LEMMA AssistCrashKeeps ==
  ASSUME Assist!BoundsAssumption, AssistInv, NEW q \in Requests, NEW n \in 0..MaxCalls + 1,
         Assist!Crash(q, n)
  PROVE  AssistInv'
<1> DEFINE a == asked[q]
           s == a.session
           torn == SubSeq(Assist!Exchange(a.calls), 1, n)
<1>1. a \in Assist!Exchanges /\ Conducted(a) /\ s \in Sessions
  BY UnderWay DEF Assist!Crash
<1>2. /\ asked' \in [Requests -> Assist!Exchanges]
      /\ \A r \in Requests : Conducted(asked[r])' /\ Len(asked'[r].calls) <= MaxCalls
  BY Stopped DEF Assist!Crash
<1>3. talks' \in 0..MaxTalks
  BY DEF Assist!Crash, AssistInv, Assist!TypeOK
<1>4. /\ a.calls \in Seq(Assist!Calls) /\ Len(a.calls) \in Nat
      /\ \A i, j \in 1..Len(a.calls) :
           Did(a.calls[i]) /\ Did(a.calls[j]) => a.calls[i].light = a.calls[j].light
  BY <1>1, LenProperties DEF Assist!Exchanges, Conducted
<1>5. CASE /\ n > 0 /\ sessions' = [sessions EXCEPT ![s].turns = Assist!Kept(@ \o torn)]
           /\ last' = [last EXCEPT ![s] = Assist!Changed(a.calls)]
  <2>1. n \in 1..(Len(a.calls) + 1)
    <3>1. /\ n \in 0..Len(Assist!Exchange(a.calls)) - 1
          /\ Len(Assist!Exchange(a.calls)) = Len(a.calls) + 2
      BY <1>4, ExchangeIs DEF Assist!Crash
    <3> QED
      BY <1>4, <1>5, <3>1
  <2>2. /\ torn \in Seq(Assist!TurnRows) /\ torn # <<>> /\ torn[1].role = "user"
        /\ \A i \in 1..Len(torn) : Assist!IsLight(torn[i]) /\ torn[i].ok =>
                                     torn[i].light = Assist!Changed(a.calls)
    BY <1>4, <2>1, TornIs
  <2>3. Assist!Changed(a.calls) \in Lights \cup {Assist!None}
    BY <1>4, ChangedIs
  <2> HIDE DEF torn, a, s
  <2>4. /\ sessions' \in [Sessions -> [status: {"free", "active", "closed"},
                                       turns: Seq(Assist!TurnRows)]]
        /\ \A r \in Sessions : Len(sessions'[r].turns) <= MaxTurns
        /\ last' \in [Sessions -> Lights \cup {Assist!None}]
        /\ Referring'
    BY <1>1, <1>5, <2>2, <2>3, Storing
  <2> QED
    BY <1>2, <1>3, <2>4 DEF AssistInv, Assist!TypeOK
<1>6. CASE UNCHANGED <<sessions, last>>
  <2>1. Referring'
    BY <1>6 DEF AssistInv, Referring
  <2> QED
    BY <1>2, <1>3, <1>6, <2>1 DEF AssistInv, Assist!TypeOK
<1> QED
  BY <1>5, <1>6 DEF Assist!Crash

-----------------------------------------------------------------------------
LEMMA AssistInit == ASSUME Assist!BoundsAssumption, Assist!Init PROVE AssistInv
<1>1. /\ Assist!Idle \in Assist!Exchanges /\ Conducted(Assist!Idle)
      /\ Len(Assist!Idle.calls) <= MaxCalls
  BY IdleIs
<1>2. Assist!Free \in [status: {"free", "active", "closed"},
                       turns: Seq(Assist!TurnRows)] /\ Assist!Free.turns = <<>>
  BY EmptySeq DEF Assist!Free
<1>3. Assist!Referent(<<>>) = Assist!None
  BY DEF Assist!Referent
<1>4. Assist!TypeOK
  BY <1>1, <1>2 DEF Assist!Init, Assist!TypeOK, Assist!BoundsAssumption
<1>5. Referring
  BY <1>2, <1>3 DEF Assist!Init, Referring
<1>6. \A q \in Requests : Conducted(asked[q])
  BY <1>1 DEF Assist!Init
<1> QED
  BY <1>4, <1>5, <1>6 DEF AssistInv

LEMMA AssistKept == ASSUME Assist!BoundsAssumption, AssistInv, Assist!Next PROVE AssistInv'
BY BeginKeeps, AnswersKeep, HomeDoesNotKeeps, ModelFailsKeeps, ModelCallsKeeps, RefusalsKeep,
   LightActsKeeps, CloseKeeps, AssistCrashKeeps DEF Assist!Next

LEMMA AssistRests == ASSUME AssistInv, UNCHANGED Assist!vars PROVE AssistInv'
<1>1. \A q \in Requests : Conducted(asked[q])'
  BY DEF Assist!vars, AssistInv, Conducted, Assist!Used
<1> QED
  BY <1>1 DEF Assist!vars, AssistInv, Assist!TypeOK, Referring

LEMMA AssistSafe == ASSUME AssistInv PROVE Assist!FollowUpGrounded
<1> SUFFICES ASSUME NEW q \in Requests, NEW light \in Assist!ToSet(asked[q].touched)
             PROVE  Assist!Warranted(asked[q], light)
  BY DEF Assist!FollowUpGrounded
<1>1. DOMAIN asked[q].touched = 1..Len(asked[q].touched)
  BY UnderWay, LenProperties DEF Assist!Exchanges
<1>2. PICK i \in 1..Len(asked[q].touched) : light = asked[q].touched[i]
  BY <1>1 DEF Assist!ToSet
<1>3. Conducted(asked[q])
  BY UnderWay
<1> QED
  BY <1>2, <1>3, Zenon DEF Conducted

\* Only a request that changed nothing says so.
Honest == \A q \in Requests : asked'[q].reply = "denied" /\ asked[q].phase # "idle" =>
                                Assist!Changed(asked[q].calls) = Assist!None

LEMMA SaysNothing ==
  ASSUME AssistInv, NEW q \in Requests, NEW a \in Assist!Exchanges, a.reply # "denied",
         asked' = [asked EXCEPT ![q] = a]
  PROVE  Honest
<1>1. \A r \in Requests : asked'[r] = IF r = q THEN a ELSE asked[r]
  BY DEF AssistInv, Assist!TypeOK
<1> QED
  BY <1>1, UnderWay DEF Honest, Assist!None

LEMMA SaysGiven ==
  ASSUME Assist!BoundsAssumption, AssistInv, NEW q \in Requests, NEW a, NEW calls,
         Assist!Conclude(q, a, calls, "given")
  PROVE  Honest
<1>1. /\ Assist!Idle \in Assist!Exchanges /\ Assist!Idle.reply # "denied"
      /\ [Assist!Idle EXCEPT !.reply = "given"] \in Assist!Exchanges
  BY IdleIs DEF Assist!None
<1>2. [Assist!Idle EXCEPT !.reply = "given"].reply = "given"
  BY <1>1 DEF Assist!Exchanges
<1> QED
  BY <1>1, <1>2, SaysNothing DEF Assist!Conclude

LEMMA SaysDenied ==
  ASSUME AssistInv, NEW q \in Requests, NEW a, Assist!Changed(asked[q].calls) = Assist!None,
         asked' = [asked EXCEPT ![q] = a]
  PROVE  Honest
<1>1. \A r \in Requests : r # q => asked'[r] = asked[r]
  BY DEF AssistInv, Assist!TypeOK
<1> QED
  BY <1>1, UnderWay DEF Honest, Assist!None

LEMMA GivingUpSays ==
  ASSUME Assist!BoundsAssumption, AssistInv, NEW q \in Requests, Assist!GiveUp(q)
  PROVE  Honest
BY IdleIs, SaysNothing DEF Assist!GiveUp, Assist!Continue, Assist!None

LEMMA AssistSays == ASSUME Assist!BoundsAssumption, AssistInv, Assist!Next PROVE Honest
<1>1. ASSUME NEW q \in Requests, NEW s \in Sessions, NEW text \in Texts,
             Assist!Begin(q, s, text)
      PROVE  Honest
  <2> DEFINE a == Beginning(s, text)
             b == Assist!Routed(a)
  <2>1. \/ asked' = [asked EXCEPT ![q] = b] \/ Assist!Conclude(q, a, <<>>, "given")
        \/ asked' = [asked EXCEPT ![q] = [Assist!Idle EXCEPT !.reply = "given"]]
    BY <1>1 DEF Assist!Begin, Beginning, Assist!Continue
  <2>2. b \in Assist!Exchanges /\ b.reply = Assist!None
    BY BegunIs
  <2> DEFINE c == [Assist!Idle EXCEPT !.reply = "given"]
  <2>3. c \in Assist!Exchanges /\ c.reply # "denied"
    BY IdleIs DEF Assist!Exchanges
  <2> HIDE DEF a, b, c
  <2>4. CASE asked' = [asked EXCEPT ![q] = c]
    BY <2>3, <2>4, SaysNothing
  <2> QED
    BY <2>1, <2>2, <2>4, SaysNothing, SaysGiven DEF Assist!None, c
<1>2. ASSUME NEW q \in Requests, Assist!HomeAnswers(q) \/ Assist!ModelAnswers(q) PROVE Honest
  BY <1>2, SaysGiven DEF Assist!HomeAnswers, Assist!ModelAnswers
<1>3. ASSUME NEW q \in Requests, Assist!HomeDoesNot(q) PROVE Honest
  <2>1. PICK aloud \in BOOLEAN :
          \/ Assist!GiveUp(q)
          \/ asked' = [asked EXCEPT ![q] = [asked[q] EXCEPT !.phase = "model",
                                            !.speech = aloud]]
    BY <1>3 DEF Assist!HomeDoesNot, Assist!Continue
  <2>2. asked[q] \in Assist!Exchanges /\ asked[q].reply = Assist!None
    BY <1>3, UnderWay DEF Assist!HomeDoesNot
  <2> DEFINE b == [asked[q] EXCEPT !.phase = "model", !.speech = aloud]
  <2>3. b \in Assist!Exchanges /\ b.reply = Assist!None
    BY <2>2 DEF Assist!Exchanges
  <2> HIDE DEF b
  <2>4. CASE asked' = [asked EXCEPT ![q] = b]
    BY <2>3, <2>4, SaysNothing DEF Assist!None
  <2> QED
    BY <2>1, <2>4, GivingUpSays DEF b
<1>4. ASSUME NEW q \in Requests, Assist!ModelFails(q) PROVE Honest
  <2>1. \/ Assist!Conclude(q, asked[q], asked[q].calls, "given")
        \/ Assist!Conclude(q, asked[q], <<>>, "given")
        \/ Assist!GiveUp(q)
        \/ /\ Assist!Changed(asked[q].calls) = Assist!None
           /\ Assist!Conclude(q, asked[q], <<>>, "denied")
    BY <1>4 DEF Assist!ModelFails, Assist!WithoutModel, Assist!HasFallback
  <2> QED
    BY <2>1, SaysGiven, GivingUpSays, SaysDenied DEF Assist!Conclude
<1>5. ASSUME NEW q \in Requests, NEW tool \in Assist!Tools, Assist!ModelCalls(q, tool)
      PROVE Honest
  <2> DEFINE b == [asked[q] EXCEPT !.phase = "tool", !.tool = tool]
             c == Assist!NothingDone(asked[q], tool)
  <2>1. \/ asked' = [asked EXCEPT ![q] = c]
        \/ asked' = [asked EXCEPT ![q] = b]
    BY <1>5 DEF Assist!ModelCalls, Assist!Continue
  <2>2. /\ asked[q] \in Assist!Exchanges /\ Conducted(asked[q]) /\ asked[q].phase # "idle"
        /\ asked[q].reply = Assist!None /\ Len(asked[q].calls) < MaxCalls
    BY <1>5, UnderWay DEF Assist!ModelCalls
  <2>3. b \in Assist!Exchanges /\ b.reply = Assist!None
    BY <2>2 DEF Assist!Exchanges
  <2>4. c \in Assist!Exchanges /\ c.reply = Assist!None
    BY <2>2, NothingDoneIs
  <2> HIDE DEF b, c
  <2> QED
    BY <2>1, <2>3, <2>4, SaysNothing DEF Assist!None
<1>6. ASSUME NEW q \in Requests,
             Assist!LightRefused(q) \/ Assist!HomeActs(q) \/ Assist!MediaActs(q) PROVE Honest
  <2>1. PICK tool \in Assist!Tools :
          Assist!GiveUp(q) \/ asked' = [asked EXCEPT ![q] = Assist!NothingDone(asked[q], tool)]
    BY <1>6 DEF Assist!LightRefused, Assist!HomeActs, Assist!MediaActs, Assist!Tools,
       Assist!Continue
  <2>2. /\ asked[q] \in Assist!Exchanges /\ Conducted(asked[q]) /\ asked[q].phase # "idle"
        /\ Len(asked[q].calls) < MaxCalls
    BY <1>6, UnderWay DEF Assist!LightRefused, Assist!HomeActs, Assist!MediaActs, Conducted
  <2>3. /\ Assist!NothingDone(asked[q], tool) \in Assist!Exchanges
        /\ Assist!NothingDone(asked[q], tool).reply = Assist!None
    BY <2>2, NothingDoneIs
  <2> QED
    BY <2>1, <2>3, GivingUpSays, SaysNothing DEF Assist!None
<1>7. ASSUME NEW q \in Requests, NEW light \in Lights, Assist!LightActs(q, light) PROVE Honest
  <2>1. PICK ok \in BOOLEAN :
          asked' = [asked EXCEPT ![q] = Acted(asked[q], light, ok)]
    BY <1>7 DEF Assist!LightActs, Assist!Continue, Acted
  <2>2. /\ asked[q] \in Assist!Exchanges /\ Conducted(asked[q]) /\ asked[q].reply = Assist!None
        /\ asked[q].phase = "tool" /\ asked[q].tool = "control_light"
        /\ Assist!Grounded(asked[q], light)
    BY <1>7, UnderWay DEF Assist!LightActs
  <2>3. /\ Acted(asked[q], light, ok) \in Assist!Exchanges
        /\ Acted(asked[q], light, ok).reply = asked[q].reply
    BY <2>2, ActedIs
  <2> QED
    BY <2>1, <2>2, <2>3, SaysNothing DEF Assist!None
<1>8. ASSUME NEW q \in Requests, NEW n \in 0..MaxCalls + 1, Assist!Crash(q, n) PROVE Honest
  BY <1>8, IdleIs DEF Assist!Crash, Honest, Assist!None
<1>9. ASSUME NEW s \in Sessions, Assist!CloseSession(s) PROVE Honest
  BY <1>9, UnderWay DEF Assist!CloseSession, Honest, Assist!None
<1> QED
  BY <1>1, <1>2, <1>3, <1>4, <1>5, <1>6, <1>7, <1>8, <1>9 DEF Assist!Next

\* Nothing else changes a request either.
LEMMA AssistTouches ==
  ASSUME AssistInv PROVE \A q \in Requests : Len(asked[q].touched) <= 1
<1> SUFFICES ASSUME NEW q \in Requests PROVE Len(asked[q].touched) <= 1
  OBVIOUS
<1>1. Conducted(asked[q])
  BY Zenon DEF AssistInv
<1> QED
  BY <1>1, Zenon DEF Conducted

-----------------------------------------------------------------------------
(* The home lab (homelab.py).                                               *)

\* The provider the monitoring is about.
Monitored == Providers # {}

\* A snapshot was read after the time it bears, and both have passed.
Timely ==
  /\ (Monitored /\ cached.status # Lab!None) => cached.stamp <= cached.read
  /\ \A r \in Readers :
       /\ asking[r].phase \in {"polling", "read"} => asking[r].now <= clock
       /\ asking[r].phase = "read" => asking[r].now <= asking[r].seen.read

\* What can still be confirmed has not been submitted.
Unsubmitted ==
  \A m \in Migrations :
    /\ planned[m] # Lab!NotPlanned => submitted[m] = 0
    /\ submitted[m] <= 1

LabInv == Lab!TypeOK /\ Timely /\ Unsubmitted

LEMMA EmptyIs ==
  ASSUME Lab!BoundsAssumption
  PROVE  /\ Lab!Empty \in Lab!Snapshots /\ Lab!Empty.status = Lab!None
         /\ Lab!Resting \in Lab!Asks /\ Lab!Resting.phase = "idle"
<1>1. Lab!Empty \in Lab!Snapshots /\ Lab!Empty.status = Lab!None
  BY DEF Lab!BoundsAssumption, Lab!Empty, Lab!Snapshots
<1>2. 0 \in 0..MaxTime
  BY DEF Lab!BoundsAssumption
<1> QED
  BY <1>1, <1>2 DEF Lab!Resting, Lab!Asks

LEMMA LabInit == ASSUME Lab!BoundsAssumption, Lab!Init PROVE LabInv
<1>1. 0 \in 0..MaxTime /\ 0 \in 0..MaxShifts
  BY DEF Lab!BoundsAssumption
<1>2. Lab!TypeOK
  BY <1>1, EmptyIs DEF Lab!Init, Lab!TypeOK, Lab!Worlds, Lab!NotPlanned, Lab!Asks
<1>3. cached.status = Lab!None /\ \A r \in Readers : asking[r].phase = "idle"
  BY EmptyIs DEF Lab!Init
<1> QED
  BY <1>2, <1>3 DEF Lab!Init, LabInv, Timely, Unsubmitted

\* The world goes on, or Core forgets.
LEMMA WorldGoesOn ==
  ASSUME Lab!BoundsAssumption, LabInv, Lab!Tick \/ Lab!Shift \/ Lab!AgentReports \/ Lab!Restart
  PROVE  LabInv'
<1>1. CASE Lab!Tick
  <2>1. clock' \in 0..MaxTime /\ clock' > clock
    BY <1>1 DEF Lab!Tick, LabInv, Lab!TypeOK, Lab!BoundsAssumption
  <2> QED
    BY <1>1, <2>1 DEF Lab!Tick, Lab!service, LabInv, Lab!TypeOK, Timely, Unsubmitted,
       Lab!BoundsAssumption, Lab!Asks
<1>2. CASE Lab!Shift
  <2>1. shifts' \in 0..MaxShifts
    BY <1>2 DEF Lab!Shift, LabInv, Lab!TypeOK, Lab!BoundsAssumption
  <2>2. world \in Lab!Worlds /\ DOMAIN world = {"online", "here", "locked"}
    BY DEF LabInv, Lab!TypeOK, Lab!Worlds
  <2>3. \A f \in {"online", "here", "locked"} : [world EXCEPT ![f] = ~@] \in Lab!Worlds
    BY <2>2 DEF Lab!Worlds
  <2>4. world' \in Lab!Worlds /\ reachable' \in SUBSET Providers
    BY <1>2, <2>2, <2>3 DEF Lab!Shift, LabInv, Lab!TypeOK
  <2> QED
    BY <1>2, <2>1, <2>4 DEF Lab!Shift, Lab!service, LabInv, Lab!TypeOK, Timely, Unsubmitted
<1>3. CASE Lab!AgentReports
  BY <1>3, EmptyIs DEF Lab!AgentReports, LabInv, Lab!TypeOK, Timely, Unsubmitted
<1>4. CASE Lab!Restart
  <2>1. asking' \in [Readers -> Lab!Asks]
        /\ \A r \in Readers : asking'[r].phase = "idle"
    BY <1>4, EmptyIs DEF Lab!Restart
  <2>2. planned' \in [Migrations -> [client: Clients \cup {Lab!None}, expires: Nat]]
        /\ \A m \in Migrations : planned'[m] = Lab!NotPlanned
    BY <1>4 DEF Lab!Restart, Lab!NotPlanned
  <2> QED
    BY <1>4, <2>1, <2>2, EmptyIs DEF Lab!Restart, LabInv, Lab!TypeOK, Timely, Unsubmitted
<1> QED
  BY <1>1, <1>2, <1>3, <1>4

\* Whoever is shown a snapshot no longer polls.
LEMMA Delivering ==
  ASSUME Lab!BoundsAssumption, Lab!TypeOK, NEW r \in Readers, NEW snapshot \in Lab!Snapshots,
         Lab!Deliver(r, snapshot)
  PROVE  /\ asking' \in [Readers -> Lab!Asks]
         /\ asking'[r].phase \in {"idle", "detail"}
         /\ \A q \in Readers \ {r} : asking'[q] = asking[q]
<1>1. snapshot.online \in BOOLEAN /\ snapshot.here \in BOOLEAN /\ 0 \in 0..MaxTime
  BY DEF Lab!Snapshots, Lab!BoundsAssumption
<1> DEFINE shown == [Lab!Empty EXCEPT !.online = snapshot.online, !.here = snapshot.here]
<1>2. shown \in Lab!Snapshots
  <2>1. Lab!Empty \in Lab!Snapshots
    BY EmptyIs
  <2> QED
    BY <1>1, <2>1 DEF Lab!Snapshots
<1> HIDE DEF shown
<1> DEFINE next == IF asking[r].client = Lab!None THEN Lab!Resting
                   ELSE [asking[r] EXCEPT !.phase = "detail", !.now = 0,
                         !.previous = Lab!Empty,
                                          !.seen = shown]
<1>3. next \in Lab!Asks
      /\ next.phase \in {"idle", "detail"}
  BY <1>1, <1>2, EmptyIs DEF Lab!TypeOK, Lab!Asks
<1>4. asking' = [asking EXCEPT ![r] = next]
  BY DEF Lab!Deliver, shown
<1> HIDE DEF next
<1> QED
  BY <1>3, <1>4 DEF Lab!TypeOK

LEMMA ShownKeeps ==
  ASSUME Lab!BoundsAssumption, LabInv, NEW r \in Readers, NEW snapshot \in Lab!Snapshots,
         Lab!Deliver(r, snapshot), cached' \in Lab!Snapshots,
         (Monitored /\ cached'.status # Lab!None) => cached'.stamp <= cached'.read,
         UNCHANGED <<world, reachable, planned, submitted, clock, shifts>>
  PROVE  LabInv'
<1>1. Lab!TypeOK'
  BY Delivering DEF LabInv, Lab!TypeOK
<1>2. Timely'
  <2>1. \A q \in Readers : q # r => asking'[q] = asking[q]
    BY Delivering DEF LabInv
  <2> QED
    BY <2>1, Delivering DEF LabInv, Timely
<1> QED
  BY <1>1, <1>2 DEF LabInv, Unsubmitted

LEMMA AskKeeps ==
  ASSUME Lab!BoundsAssumption, LabInv, NEW r \in Readers, Lab!Ask(r)
  PROVE  LabInv'
<1>1. CASE Lab!Deliver(r, cached)
  BY <1>1, ShownKeeps DEF Lab!Ask, LabInv, Lab!TypeOK, Timely
<1>2. ASSUME NEW forced \in BOOLEAN, NEW c \in Clients \cup {Lab!None},
             asking' = [asking EXCEPT ![r] = [Lab!Resting EXCEPT !.phase = "waiting",
                                                 !.forced = forced, !.client = c]]
      PROVE  LabInv'
  <2>1. /\ asking' \in [Readers -> Lab!Asks]
        /\ asking'[r].phase = "waiting"
        /\ \A q \in Readers : q # r => asking'[q] = asking[q]
    BY <1>2, EmptyIs DEF LabInv, Lab!TypeOK, Lab!Asks
  <2> QED
    BY <2>1 DEF Lab!Ask, LabInv, Lab!TypeOK, Timely, Unsubmitted, Lab!Asks
<1> QED
  BY <1>1, <1>2 DEF Lab!Ask

LEMMA EnterKeeps ==
  ASSUME Lab!BoundsAssumption, LabInv, NEW r \in Readers, Lab!Enter(r)
  PROVE  LabInv'
<1>1. CASE Lab!Deliver(r, cached)
  BY <1>1, ShownKeeps DEF Lab!Enter, LabInv, Lab!TypeOK, Timely
<1>2. CASE asking' = [asking EXCEPT ![r].phase = "polling", ![r].now = clock,
                                   ![r].previous = cached]
  <2>1. /\ asking' \in [Readers -> Lab!Asks]
        /\ asking'[r].phase = "polling" /\ asking'[r].now = clock
        /\ \A q \in Readers : q # r => asking'[q] = asking[q]
    <3> DEFINE next == [asking[r] EXCEPT !.phase = "polling", !.now = clock,
                                         !.previous = cached]
    <3>1. next \in Lab!Asks
          /\ next.phase = "polling" /\ next.now = clock
      BY DEF LabInv, Lab!TypeOK, Lab!Asks
    <3>2. asking' = [asking EXCEPT ![r] = next]
      BY <1>2 DEF LabInv, Lab!TypeOK
    <3> HIDE DEF next
    <3> QED
      BY <3>1, <3>2 DEF LabInv, Lab!TypeOK
  <2>2. clock' = clock /\ clock \in Nat
    BY DEF Lab!Enter, LabInv, Lab!TypeOK, Lab!BoundsAssumption
  <2> QED
    BY <2>1, <2>2 DEF Lab!Enter, LabInv, Lab!TypeOK, Timely, Unsubmitted, Lab!Asks
<1> QED
  BY <1>1, <1>2 DEF Lab!Enter

LEMMA AnswerKeeps ==
  ASSUME Lab!BoundsAssumption, LabInv, NEW r \in Readers, Lab!UpstreamsAnswer(r)
  PROVE  LabInv'
<1>1. PICK up \in BOOLEAN, here \in BOOLEAN :
        asking' = [asking EXCEPT ![r] = [@ EXCEPT !.phase = "read",
          !.seen = [Lab!Empty EXCEPT !.failed = Lab!Unanswered, !.read = clock, !.online = up,
                                 !.here = here]]]
  <2>1. /\ (Lab!ProxmoxAnswers /\ world.online) \in BOOLEAN
        /\ (Lab!ProxmoxAnswers /\ world.here) \in BOOLEAN
    OBVIOUS
  <2> QED
    BY <2>1, Zenon DEF Lab!UpstreamsAnswer
<1> DEFINE seen == [Lab!Empty EXCEPT !.failed = Lab!Unanswered, !.read = clock, !.online = up,
                                 !.here = here]
<1>2. seen \in Lab!Snapshots /\ seen.read = clock
  <2>1. Lab!Unanswered \in SUBSET Providers /\ clock \in 0..MaxTime
    BY DEF Lab!Unanswered, LabInv, Lab!TypeOK
  <2>2. Lab!Empty \in Lab!Snapshots
    BY EmptyIs
  <2> QED
    BY <2>1, <2>2 DEF Lab!Snapshots
<1>3. asking' = [asking EXCEPT ![r] = [@ EXCEPT !.phase = "read", !.seen = seen]]
  BY <1>1
<1> HIDE DEF seen
<1>4. /\ asking' \in [Readers -> Lab!Asks]
      /\ asking'[r].phase = "read" /\ asking'[r].now = asking[r].now /\ asking'[r].seen = seen
      /\ \A q \in Readers : q # r => asking'[q] = asking[q]
  <2> DEFINE next == [asking[r] EXCEPT !.phase = "read", !.seen = seen]
  <2>1. asking[r] \in Lab!Asks /\ asking \in [Readers -> Lab!Asks]
    BY DEF LabInv, Lab!TypeOK
  <2>2. next \in Lab!Asks /\ next.phase = "read" /\ next.now = asking[r].now /\ next.seen = seen
    BY <1>2, <2>1 DEF Lab!Asks
  <2>3. asking' = [asking EXCEPT ![r] = next]
    BY <1>3
  <2> HIDE DEF next
  <2> QED
    BY <2>1, <2>2, <2>3
<1>5. asking[r].now <= clock /\ clock' = clock
  BY DEF Lab!UpstreamsAnswer, LabInv, Timely
<1> QED
  BY <1>2, <1>4, <1>5 DEF Lab!UpstreamsAnswer, LabInv, Lab!TypeOK, Timely, Unsubmitted,
     Lab!Asks

LEMMA RenewKeeps ==
  ASSUME Lab!BoundsAssumption, LabInv, NEW r \in Readers, Lab!Renew(r)
  PROVE  LabInv'
<1> DEFINE seen == asking[r].seen
           previous == asking[r].previous
           status == Lab!Status(seen)
           kept == status = "unavailable" /\ previous.status # Lab!None
           base == IF kept THEN [previous EXCEPT !.status = "stale"]
                   ELSE [seen EXCEPT !.status = status]
           new == [base EXCEPT !.stamp = Lab!Stamped(r), !.failed = seen.failed]
<1>1. cached' = new /\ Lab!Deliver(r, new)
  BY DEF Lab!Renew
<1>2. /\ seen \in Lab!Snapshots /\ previous \in Lab!Snapshots /\ Lab!Stamped(r) \in 0..MaxTime
      /\ asking[r].now <= seen.read
  BY DEF LabInv, Lab!TypeOK, Timely, Lab!Renew, Lab!Stamped, Lab!Asks
<1>3. status \in {"healthy", "degraded", "unavailable"} /\ (Monitored => status # "unavailable")
  BY DEF Lab!Status, Monitored
<1> HIDE DEF seen, previous, status
<1>4. base \in Lab!Snapshots /\ (Monitored => base.read = seen.read)
  BY <1>2, <1>3 DEF Lab!Snapshots, Lab!None
<1> HIDE DEF base
<1>5. new \in Lab!Snapshots /\ new.stamp = asking[r].now /\ new.read = base.read
  BY <1>2, <1>4 DEF Lab!Snapshots, Lab!Stamped
<1> HIDE DEF new
<1>6. /\ cached' \in Lab!Snapshots
      /\ ((Monitored /\ cached'.status # Lab!None) => cached'.stamp <= cached'.read)
  BY <1>1, <1>2, <1>4, <1>5
<1> QED
  BY <1>1, <1>5, <1>6, ShownKeeps DEF Lab!Renew

LEMMA PrepareKeeps ==
  ASSUME Lab!BoundsAssumption, LabInv, NEW r \in Readers, NEW m \in Migrations,
         Lab!Prepare(r, m)
  PROVE  LabInv'
<1>1. /\ asking' \in [Readers -> Lab!Asks]
      /\ asking'[r].phase = "idle"
      /\ \A q \in Readers : q # r => asking'[q] = asking[q]
  BY EmptyIs DEF Lab!Prepare, LabInv, Lab!TypeOK, Lab!Asks
<1>2. /\ planned' \in [Migrations -> [client: Clients \cup {Lab!None}, expires: Nat]]
      /\ \A n \in Migrations : planned'[n] = planned[n] \/ submitted[n] = 0
  BY DEF Lab!Prepare, LabInv, Lab!TypeOK, Lab!BoundsAssumption, Lab!Asks
<1>3. Lab!TypeOK'
  BY <1>1, <1>2 DEF Lab!Prepare, LabInv, Lab!TypeOK
<1>4. Timely'
  BY <1>1 DEF Lab!Prepare, LabInv, Timely
<1>5. Unsubmitted'
  BY <1>2 DEF Lab!Prepare, LabInv, Unsubmitted
<1> QED
  BY <1>3, <1>4, <1>5 DEF LabInv

LEMMA ConfirmKeeps ==
  ASSUME Lab!BoundsAssumption, LabInv, NEW m \in Migrations, NEW c \in Clients,
         Lab!Confirm(m, c)
  PROVE  LabInv'
<1>1. /\ planned' \in [Migrations -> [client: Clients \cup {Lab!None}, expires: Nat]]
      /\ planned'[m] = Lab!NotPlanned /\ \A n \in Migrations : n # m => planned'[n] = planned[n]
  BY DEF Lab!Confirm, Lab!TakeOut, Lab!NotPlanned, LabInv, Lab!TypeOK
<1>2. submitted[m] = 0
  BY DEF Lab!Confirm, LabInv, Unsubmitted
<1>3. /\ submitted' \in [Migrations -> Nat] /\ submitted'[m] \in {0, 1}
      /\ \A n \in Migrations : n # m => submitted'[n] = submitted[n]
      /\ world' \in Lab!Worlds /\ cached' \in {cached, Lab!Empty}
  <2>1. CASE Lab!Submit(m)
    <3>1. [world EXCEPT !.here = FALSE] \in Lab!Worlds
      BY DEF LabInv, Lab!TypeOK, Lab!Worlds
    <3>2. submitted' = [submitted EXCEPT ![m] = 1]
      BY <1>2, <2>1 DEF Lab!Submit, LabInv, Lab!TypeOK
    <3>3. world' \in Lab!Worlds
      BY <2>1, <3>1 DEF Lab!Submit, LabInv, Lab!TypeOK
    <3>4. cached' \in {cached, Lab!Empty}
      BY <2>1 DEF Lab!Submit
    <3> QED
      BY <3>2, <3>3, <3>4 DEF LabInv, Lab!TypeOK
  <2>2. CASE UNCHANGED <<world, cached, submitted>>
    <3>1. world \in Lab!Worlds /\ submitted \in [Migrations -> Nat]
      BY DEF LabInv, Lab!TypeOK
    <3> QED
      BY <1>2, <2>2, <3>1
  <2> QED
    BY <2>1, <2>2 DEF Lab!Confirm
<1>4. Lab!TypeOK'
  <2>1. cached' \in Lab!Snapshots
    <3>1. cached' \in {cached, Lab!Empty}
      BY <1>3, Zenon
    <3>2. cached \in Lab!Snapshots
      BY Zenon DEF LabInv, Lab!TypeOK
    <3>3. Lab!Empty \in Lab!Snapshots
      BY EmptyIs
    <3> QED
      BY <3>1, <3>2, <3>3
  <2> QED
    BY <1>1, <1>3, <2>1 DEF Lab!Confirm, LabInv, Lab!TypeOK
<1>5. Timely'
  BY <1>3, EmptyIs DEF Lab!Confirm, LabInv, Timely
<1>6. Unsubmitted'
  BY <1>1, <1>3 DEF LabInv, Unsubmitted
<1> QED
  BY <1>4, <1>5, <1>6 DEF LabInv

LEMMA LabKept == ASSUME Lab!BoundsAssumption, LabInv, Lab!Next PROVE LabInv'
BY WorldGoesOn, AskKeeps, EnterKeeps, AnswerKeeps, RenewKeeps, PrepareKeeps,
   ConfirmKeeps DEF Lab!Next

LEMMA LabRests == ASSUME LabInv, UNCHANGED Lab!vars PROVE LabInv'
BY DEF Lab!vars, LabInv, Lab!TypeOK, Timely, Unsubmitted

\* Something is monitored: what is served was read after the time it bears.
LEMMA LabSafe ==
  ASSUME Lab!BoundsAssumption, LabInv
  PROVE  (Monitored => Lab!ServedIsRecent) /\ Lab!MigratesOnce
BY DEF Lab!BoundsAssumption, LabInv, Lab!TypeOK, Lab!Snapshots, Timely, Unsubmitted,
   Lab!Fresh, Lab!ServedIsRecent, Lab!MigratesOnce

-----------------------------------------------------------------------------
(* What Core does with the services around it.                             *)

ServicesInv == FirmwareInv /\ FocusInv /\ SpeechInv /\ AssistInv /\ LabInv

\* A component rests when its variables do.
LEMMA FirmwareAtRest == ASSUME ConstantsFit, FirmwareInv, UNCHANGED vars PROVE FirmwareInv'
BY FirmwareKept

LEMMA FocusAtRest == ASSUME FocusInv, UNCHANGED satellites PROVE FocusInv'
BY FocusRests DEF satellites, Focus!vars, Focus!bridge, Focus!transport

LEMMA SpeechAtRest == ASSUME SpeechInv, UNCHANGED speech PROVE SpeechInv'
BY SpeechRests DEF speech, Speech!vars

LEMMA AssistAtRest == ASSUME AssistInv, UNCHANGED exchanges PROVE AssistInv'
BY AssistRests DEF exchanges, Assist!vars

LEMMA LabAtRest == ASSUME LabInv, UNCHANGED lab PROVE LabInv'
BY LabRests DEF lab, Lab!vars

\* A step is one of a component, and the others rest.
LEMMA ServicesSteps ==
  ASSUME [ServicesNext]_<<component, vars, satellites, speech, exchanges, lab>>
  PROVE  /\ Next \/ UNCHANGED vars
         /\ Focus!Next \/ UNCHANGED satellites
         /\ Speech!Next \/ UNCHANGED speech
         /\ Assist!Next \/ UNCHANGED exchanges
         /\ Lab!Next \/ UNCHANGED lab
BY DEF ServicesNext, FirmwareNext, SatellitesNext, SpeechNext, ExchangesNext, LabNext

LEMMA ServicesInitially == ServicesInit => ServicesInv
BY ServicesConstants, FirmwareInit, FocusInit, SpeechInit, AssistInit, LabInit
   DEF ServicesInit, ServicesInv

LEMMA ServicesKept ==
  ASSUME ServicesInv, [ServicesNext]_<<component, vars, satellites, speech, exchanges, lab>>
  PROVE  ServicesInv'
<1>1. FirmwareInv'
  BY ServicesSteps, ServicesConstants, FirmwareKept DEF ServicesInv
<1>2. FocusInv'
  BY ServicesSteps, ServicesConstants, FocusKept, FocusAtRest DEF ServicesInv
<1>3. SpeechInv'
  BY ServicesSteps, ServicesConstants, SpeechKept, SpeechAtRest DEF ServicesInv
<1>4. AssistInv'
  BY ServicesSteps, ServicesConstants, AssistKept, AssistAtRest DEF ServicesInv
<1>5. LabInv'
  BY ServicesSteps, ServicesConstants, LabKept, LabAtRest DEF ServicesInv
<1> QED
  BY <1>1, <1>2, <1>3, <1>4, <1>5 DEF ServicesInv

LEMMA ServicesInvariant == ServicesSpec => []ServicesInv
<1>1. ServicesInit => ServicesInv
  BY ServicesInitially
<1>2. ServicesInv /\ [ServicesNext]_<<component, vars, satellites, speech, exchanges, lab>>
        => ServicesInv'
  BY ServicesKept
<1> QED
  BY <1>1, <1>2, PTL DEF ServicesSpec

\* Every component keeps the types of its variables.
THEOREM ServicesTypes == ServicesSpec => []TypesOK
<1>1. ServicesInv => TypesOK
  BY DEF ServicesInv, FirmwareInv, FocusInv, SpeechInv, AssistInv, LabInv, TypesOK
<1> QED
  BY <1>1, ServicesInvariant, PTL

\* However events, commands and restarts of the agent overlap, a room that has executed every
\* command has no focus but what its satellite asks for, and all of that but what ended since it
\* was set, unless an event or a command was lost, late or overtaken (assist_focus.py,
\* controls.py).
THEOREM FocusAlwaysFollows == ServicesSpec => []FocusFollows
<1>1. ServicesInv => FocusFollows
  BY FocusSafe DEF ServicesInv, FocusFollows
<1> QED
  BY <1>1, ServicesInvariant, PTL

\* However devices move and are revoked while an answer is made, what the assistant says is
\* heard by one device at most (audio_assets.py, api.py dispatch_audio_asset).
THEOREM SpeechStaysPrivate == ServicesSpec => []SpeechIsPrivate
<1>1. ServicesInv => SpeechIsPrivate
  BY ServicesConstants, SpeechSafe DEF ServicesInv, SpeechIsPrivate
<1> QED
  BY <1>1, ServicesInvariant, PTL

\* However requests of a session overlap, and whatever is torn by a crash or forgotten, a request
\* changes only a light that its text names; the room's, where it mentions lights or refers back
\* to what the exchange just before it changed; or, by a pronoun, exactly that light
\* (conversation.py _recent_light_referent, _resolve_light).
THEOREM FollowUpsStayGrounded == ServicesSpec => []FollowUpGrounded
<1>1. ServicesInv => FollowUpGrounded
  BY AssistSafe DEF ServicesInv, FollowUpGrounded
<1> QED
  BY <1>1, ServicesInvariant, PTL

\* No request reaches for a light twice, and none says that nothing was changed after it changed
\* one (conversation.py respond).
THEOREM NothingTwiceNothingDenied == ServicesSpec => ActsOnceAndSaysSo
<1> DEFINE Says ==
      \A q \in Requests :
        /\ asked'[q].reply = "denied" /\ asked[q].phase # "idle" =>
             Assist!Changed(asked[q].calls) = Assist!None
        /\ Len(asked'[q].touched) <= 1
<1>1. ServicesInv /\ ServicesInv' /\ [ServicesNext]_<<component, vars, satellites, speech,
                                                      exchanges, lab>>
        => [Says]_exchanges
  <2> SUFFICES ASSUME ServicesInv, ServicesInv', Assist!Next PROVE Says
    BY ServicesSteps
  <2>1. Honest
    BY ServicesConstants, AssistSays DEF ServicesInv
  <2>2. \A q \in Requests : Len(asked'[q].touched) <= 1
    BY DEF ServicesInv, AssistInv, Conducted
  <2> QED
    BY <2>1, <2>2 DEF Honest
<1>2. ActsOnceAndSaysSo <=> [][Says]_exchanges
  BY PTL DEF ActsOnceAndSaysSo, Assist!ActsOnceAndSaysSo, Assist!vars, exchanges
<1> QED
  BY <1>1, <1>2, ServicesInvariant, PTL DEF ServicesSpec

\* Where a provider is configured, nobody is given what the cache holds after the cache time,
\* and a prepared migration is submitted to Proxmox at most once (homelab.py).
THEOREM LabAlwaysHolds == Monitored => (ServicesSpec => []LabHolds)
<1> SUFFICES ASSUME Monitored PROVE ServicesSpec => []LabHolds
  OBVIOUS
<1>1. ServicesInv => LabHolds
  BY ServicesConstants, LabSafe DEF ServicesInv, LabHolds
<1> QED
  BY <1>1, ServicesInvariant, PTL

\* However often power fails, the boot loader finds a complete image (pilot_client.cpp,
\* InstallFirmware and MarkRunningFirmwareValid).
THEOREM BootsForEver == ServicesSpec => []AlwaysBootable
<1>1. ServicesInv => AlwaysBootable
  BY DEF ServicesInv, FirmwareInv
<1> QED
  BY <1>1, ServicesInvariant, PTL

\* Whatever is published meanwhile, a node selects only an image newer than the one it runs
\* (pilot_client.cpp, CheckForUpdate and InstallFirmware).
THEOREM NeverDowngrades == ServicesSpec => UpgradesOnly
<1> DEFINE Upgrade ==
      boot' # boot /\ node = "loading" => Newer(slots'[boot'].version, slots[running].version)
<1>1. ServicesInv /\ [ServicesNext]_<<component, vars, satellites, speech, exchanges, lab>>
        => [Upgrade]_vars
  <2> SUFFICES ASSUME ServicesInv, Next, boot' # boot, node = "loading" PROVE Upgrade
    BY ServicesSteps
  <2> USE DEF ServicesInv, FirmwareInv, TypeOK
  <2>1. CASE Installed
    <3>1. Other(running) \in Slots
      BY OtherSlot
    <3>2. Verified /\ boot' = Other(running) /\ slots'[boot'] = offer
      BY <2>1, <3>1 DEF Installed, Verified
    <3> QED
      BY <3>2 DEF Offered
  <2>2. CASE Crash
    <3>1. boot = running /\ state[running] = "valid"
      BY DEF Settling
    <3> QED
      BY <2>2, <3>1 DEF Crash, Started
  <2> QED
    BY <2>1, <2>2 DEF Next, PublishImage, PublishManifest, PublishBreaksOff, CheckForUpdate,
       LoadImage, LoadFails, Restart, MarkValid, device
<1> QED
  BY <1>1, ServicesInvariant, PTL DEF ServicesSpec, UpgradesOnly
=============================================================================
