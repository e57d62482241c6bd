---------------------------- MODULE ConfigProofs ----------------------------
(***************************************************************************)
(* Proofs about the device settings and the config channel, for every set  *)
(* of values, every record an older firmware may have left, every frame a  *)
(* host may send and every request in it.                                  *)
(***************************************************************************)
EXTENDS Config, FiniteSetTheorems, SequenceTheorems, WellFoundedInduction, TLAPS

-----------------------------------------------------------------------------
(* The settings record.                                                    *)

Bytes == UNION {[1 .. n -> Value] : n \in 0 .. 3}

LEMMA BytesAreSeq == ASSUME NEW s \in Bytes PROVE s \in Seq(Value)
<1>1. PICK n \in 0 .. 3 : s \in [1 .. n -> Value]
  BY DEF Bytes
<1> QED
  BY <1>1

LEMMA RecordTyped ==
    ASSUME NEW c \in [Caches -> Value]
    PROVE  /\ Record(c) \in Bytes /\ Len(Record(c)) = 3
           /\ \A f \in Field : Record(c)[f] = c[f]
<1>1. Record(c) \in [1 .. 3 -> Value]
  BY DEF Record, Field, Caches
<1>2. Record(c) \in Bytes
  BY <1>1 DEF Bytes
<1>3. Len(Record(c)) = 3
  BY <1>1
<1> QED
  BY <1>2, <1>3 DEF Record

\* What a boot reads of a record and of the thru byte.
ByteRead(bytes, f, i) ==
    IF i <= Len(bytes) /\ bytes[i] \in Valid[f] THEN bytes[i] ELSE Fallback[f]

LEMMA DecodeReads ==
    /\ \A f \in Field : Decode(f) = ByteRead(rec, f, f)
    /\ Decode(Thru) = ByteRead(thru, Thru, 1)
BY DEF Decode, ByteRead, Field, Thru

BootReads ==
    /\ \A f \in Field : Stored[f] = ByteRead(rec, f, f)
    /\ Stored[Thru] = ByteRead(thru, Thru, 1)
    /\ DOMAIN Stored = Caches

LEMMA StoredReads == BootReads
BY DecodeReads DEF BootReads, Stored, Caches

LEMMA StoredTyped == Stored \in [Caches -> Value] /\ \A f \in Caches : Stored[f] \in Valid[f]
<1>1. \A f \in Caches : Decode(f) \in Valid[f]
  BY SettingsAssumption DEF Decode
<1>2. \A f \in Caches : Valid[f] \subseteq Value
  BY SettingsAssumption
<1> QED
  BY <1>1, <1>2 DEF Stored

-----------------------------------------------------------------------------
(* What a step of the device does to the settings: nothing, a boot, a      *)
(* power cut, a failure in the store, or a setter.                         *)

SettingsStep ==
    \/ UNCHANGED settings
    \/ Load
    \/ InitReturnsEarly
    \/ Crash
    \/ Fault
    \/ \E f \in Caches : \E v \in Valid[f] : Set(f, v)

LEMMA StoresSteps ==
    ASSUME NEW f \in Caches, NEW v \in Valid[f], NEW code, Stores(f, v, code)
    PROVE  SettingsStep
BY DEF Stores, SettingsStep, Set

LEMMA HandleSteps == ASSUME NEW r, Handle(r) PROVE SettingsStep
<1>1. CASE Refused(r)
  BY <1>1 DEF Refused, SettingsStep
<1>2. CASE Query(r) \/ Monset(r) \/ Led(r)
  BY <1>2 DEF Query, Monset, Led, SettingsStep
<1>3. CASE Proper(r) /\ Setting(r)
  <2> DEFINE f == IF r.t = "playrole" THEN PlayRole ELSE Thru
  <2>1. PICK code \in {"ok", "failed"} : Stores(f, r.v, code)
    BY <1>3 DEF Setting
  <2>2. f \in Caches
    BY DEF Caches, Field, PlayRole, Thru
  <2> HIDE DEF f
  <2>3. CASE SetStored(f, r.v) \/ SetUnchanged(f, r.v) \/ SetFails(f, r.v)
    <3>1. r.v \in Valid[f]
      BY <2>3 DEF SetStored, SetUnchanged, SetFails, Admitted
    <3> QED
      BY <2>2, <2>3, <3>1 DEF SettingsStep, Set
  <2>4. CASE UNCHANGED settings
    BY <2>4 DEF SettingsStep
  <2> QED
    BY <2>1, <2>3, <2>4 DEF Stores
<1>4. CASE StoreVerb(r)
  BY <1>4 DEF StoreVerb, StoreFails, SettingsStep
<1> QED
  BY <1>1, <1>2, <1>3, <1>4 DEF Handle

LEMMA ReceiveSteps == ASSUME NEW bytes, Receive(bytes) PROVE SettingsStep
BY HandleSteps DEF Receive, SettingsStep

LEMMA StepSettings == ASSUME [CNext]_cvars PROVE SettingsStep
<1>1. CASE Whole \/ Broken
  BY <1>1, ReceiveSteps DEF Whole, Broken
<1>2. CASE Flush \/ Port \/ Tick
  BY <1>2 DEF Flush, Port, Tick, SettingsStep
<1>3. CASE \E w \in Within : StepProfile(w) \/ SwitchProfile(w)
  BY <1>3 DEF StepProfile, SwitchProfile, SettingsStep
<1>4. CASE (\E m \in Modes : FlipMode(m)) \/ \E v \in Valid[Bpm] : Touch(v)
  BY <1>4 DEF FlipMode, Touch, SettingsStep
<1>5. CASE Brighten
  <2>1. Brightness \in Caches
    BY DEF Caches, Field, Brightness
  <2>2. Set(Brightness, 1 - cache[Brightness])
    BY <1>5 DEF Brighten, Set
  <2>3. 1 - cache[Brightness] \in Valid[Brightness]
    BY <2>2 DEF Set, SetStored, SetUnchanged, SetFails, Admitted
  <2> QED
    BY <2>1, <2>2, <2>3 DEF SettingsStep
<1>6. CASE Save
  <2>1. PICK code \in {"ok", "failed"} : Stores(Bpm, pending, code)
    BY <1>6 DEF Save
  <2>2. Bpm \in Caches
    BY DEF Caches, Field, Bpm
  <2>3. CASE SetStored(Bpm, pending) \/ SetUnchanged(Bpm, pending) \/ SetFails(Bpm, pending)
    <3>1. pending \in Valid[Bpm]
      BY <2>3 DEF SetStored, SetUnchanged, SetFails, Admitted
    <3> QED
      BY <2>2, <2>3, <3>1 DEF SettingsStep, Set
  <2>4. CASE UNCHANGED settings
    BY <2>4 DEF SettingsStep
  <2> QED
    BY <2>1, <2>3, <2>4 DEF Stores
<1>7. CASE Boot \/ PowerCut
  BY <1>7 DEF Boot, PowerCut, SettingsStep
<1>8. CASE UNCHANGED cvars
  BY <1>8 DEF cvars, settings, SettingsStep
<1> QED
  BY <1>1, <1>2, <1>3, <1>4, <1>5, <1>6, <1>7, <1>8 DEF CNext

-----------------------------------------------------------------------------
(* Types.                                                                  *)

RamOK ==
    /\ cache \in [Caches -> Value]
    /\ up \in BOOLEAN /\ ready \in BOOLEAN /\ loaded \in BOOLEAN
FlashOK == rec \in Bytes /\ thru \in {<<>>} \cup {<<v>> : v \in Value}
CountsOK == faults \in 0 .. FaultBudget /\ crashes \in 0 .. CrashBudget

LEMMA Parts == TypeOK <=> RamOK /\ FlashOK /\ CountsOK
BY DEF TypeOK, RamOK, FlashOK, CountsOK, Bytes

LEMMA InitTypeOK == CInit => TypeOK
<1> SUFFICES ASSUME CInit PROVE TypeOK
  OBVIOUS
<1>1. RamOK
  BY SettingsAssumption DEF CInit, Init, RamOK
<1>2. FlashOK
  BY DEF CInit, Init, FlashOK, Bytes
<1>3. CountsOK
  BY SettingsAssumption DEF CInit, Init, CountsOK
<1> QED
  BY <1>1, <1>2, <1>3, Parts

LEMMA SetTypeOK ==
    ASSUME TypeOK, NEW f \in Caches, NEW v \in Valid[f], Set(f, v)
    PROVE  TypeOK'
<1>p. RamOK /\ FlashOK /\ CountsOK /\ v \in Value
  BY Parts, SettingsAssumption
<1>1. cache' = [cache EXCEPT ![f] = v]
  BY DEF Set, SetStored, SetUnchanged, SetFails
<1>2. cache' \in [Caches -> Value]
  BY <1>p, <1>1 DEF RamOK
<1>3. CASE SetStored(f, v)
  <2>1. Record(cache') \in Bytes
    BY <1>2, RecordTyped
  <2>2. FlashOK'
    BY <1>p, <1>3, <2>1 DEF SetStored, FlashOK
  <2> QED
    BY <1>p, <1>2, <1>3, <2>2 DEF SetStored, TypeOK, RamOK, FlashOK, CountsOK, Bytes
<1>4. CASE SetUnchanged(f, v)
  BY <1>p, <1>2, <1>4 DEF SetUnchanged, TypeOK
<1>5. CASE SetFails(f, v)
  <2>1. CountsOK'
    BY <1>p, <1>5, SettingsAssumption DEF SetFails, CountsOK
  <2> QED
    BY <1>2, <1>5, <2>1 DEF SetFails, TypeOK, CountsOK
<1> QED
  BY <1>3, <1>4, <1>5 DEF Set

LEMMA StepTypeOK == TypeOK /\ [CNext]_cvars => TypeOK'
<1> SUFFICES ASSUME TypeOK, SettingsStep PROVE TypeOK'
  BY StepSettings
<1>1. CASE UNCHANGED settings
  BY <1>1 DEF settings, TypeOK
<1>2. CASE Load
  BY <1>2, StoredTyped DEF Load, TypeOK
<1>3. CASE InitReturnsEarly
  BY <1>3 DEF InitReturnsEarly, TypeOK
<1>4. CASE Crash
  <2>1. CountsOK'
    BY <1>4, Parts, SettingsAssumption DEF Crash, CountsOK
  <2>2. RamOK'
    BY <1>4, SettingsAssumption DEF Crash, RamOK
  <2> QED
    BY <1>4, <2>1, <2>2 DEF Crash, TypeOK, CountsOK, RamOK
<1>5. CASE Fault
  <2>1. CountsOK'
    BY <1>5, Parts, SettingsAssumption DEF Fault, CountsOK
  <2> QED
    BY <1>5, <2>1 DEF Fault, TypeOK, CountsOK
<1>6. CASE \E f \in Caches : \E v \in Valid[f] : Set(f, v)
  BY <1>6, SetTypeOK
<1> QED
  BY <1>1, <1>2, <1>3, <1>4, <1>5, <1>6 DEF SettingsStep

\* Whatever a host sends and a release left in flash, the record stays one that
\* a boot can decode.
THEOREM TypeCorrect == CSpec => []TypeOK
BY InitTypeOK, StepTypeOK, PTL DEF CSpec

-----------------------------------------------------------------------------
(* Cache and flash.                                                        *)

\* Of a loaded device: it can write, and what it runs by is valid.
LoadedIsValid == loaded => up /\ ready /\ \A f \in Caches : cache[f] \in Valid[f]

DurableInv == LoadedIsValid /\ CacheIsDurable

\* A setter that writes makes the boot's view what the cache is.
LEMMA WriteIsRead ==
    ASSUME TypeOK, DurableInv, loaded, faults = 0,
           NEW f \in Caches, NEW v \in Valid[f], SetStored(f, v) \/ SetUnchanged(f, v)
    PROVE  Stored' = cache'
<1>1. cache' = [cache EXCEPT ![f] = v] /\ cache \in [Caches -> Value] /\ v \in Value
  BY SettingsAssumption DEF SetStored, SetUnchanged, TypeOK
<1>2. cache' \in [Caches -> Value] /\ \A g \in Caches : cache'[g] \in Valid[g]
  BY <1>1 DEF DurableInv, LoadedIsValid
<1>3. cache = Stored
  BY DEF DurableInv, CacheIsDurable
<1>4. Thru \notin Field /\ Caches = Field \cup {Thru}
  BY DEF Thru, Field, Caches
<1>5. /\ \A g \in Field : Stored'[g] = ByteRead(rec', g, g)
      /\ Stored'[Thru] = ByteRead(thru', Thru, 1)
      /\ DOMAIN Stored' = Caches
  <2>1. BootReads'
    BY StoredReads, PTL
  <2> QED
    BY <2>1 DEF BootReads
<1>6. CASE f = Thru
  <2>1. thru' = <<v>> /\ rec' = rec
    BY <1>6 DEF SetStored, SetUnchanged
  <2>2. ByteRead(thru', Thru, 1) = v
    BY <1>6, <2>1 DEF ByteRead
  <2>3. \A g \in Field : Stored'[g] = Stored[g]
    BY <1>5, <2>1, StoredReads DEF BootReads
  <2>4. \A g \in Caches : Stored'[g] = cache'[g]
    BY <1>1, <1>3, <1>4, <1>5, <1>6, <2>2, <2>3
  <2> QED
    BY <1>2, <2>4 DEF Stored
<1>7. CASE f # Thru
  <2>1. rec' = Record(cache') /\ thru' = thru
    BY <1>7 DEF SetStored, SetUnchanged
  <2>2. Len(rec') = 3 /\ \A g \in Field : rec'[g] = cache'[g] /\ g <= 3
    BY <1>2, <2>1, RecordTyped DEF Field
  <2>3. \A g \in Field : Stored'[g] = cache'[g]
    BY <1>2, <1>4, <1>5, <2>2 DEF ByteRead
  <2>4. Stored'[Thru] = cache'[Thru]
    BY <1>1, <1>3, <1>4, <1>5, <1>7, <2>1, StoredReads DEF BootReads
  <2>5. \A g \in Caches : Stored'[g] = cache'[g]
    BY <1>4, <2>3, <2>4
  <2> QED
    BY <1>2, <2>5 DEF Stored
<1> QED
  BY <1>6, <1>7

LEMMA StepDurable == TypeOK /\ TypeOK' /\ DurableInv /\ [CNext]_cvars => DurableInv'
<1> SUFFICES ASSUME TypeOK, TypeOK', DurableInv, SettingsStep PROVE DurableInv'
  BY StepSettings
<1>s. rec' = rec /\ thru' = thru => Stored' = Stored
  BY DEF Stored, Decode
<1>1. CASE UNCHANGED settings
  BY <1>1, <1>s DEF settings, DurableInv, LoadedIsValid, CacheIsDurable
<1>2. CASE Load
  BY <1>2, <1>s, StoredTyped DEF Load, DurableInv, LoadedIsValid, CacheIsDurable
<1>3. CASE InitReturnsEarly \/ Crash
  <2>1. ~loaded'
    BY <1>3, SettingsAssumption DEF InitReturnsEarly, Crash, DurableInv, LoadedIsValid, TypeOK
  <2> QED
    BY <2>1 DEF DurableInv, LoadedIsValid, CacheIsDurable
<1>4. CASE Fault
  <2>1. faults' # 0 /\ UNCHANGED <<cache, up, ready, loaded>>
    BY <1>4 DEF Fault, TypeOK
  <2> QED
    BY <2>1 DEF DurableInv, LoadedIsValid, CacheIsDurable
<1>5. ASSUME NEW f \in Caches, NEW v \in Valid[f], Set(f, v) PROVE DurableInv'
  <2>1. cache' = [cache EXCEPT ![f] = v] /\ UNCHANGED <<up, ready, loaded>>
    BY <1>5 DEF Set, SetStored, SetUnchanged, SetFails
  <2>2. LoadedIsValid'
    BY <2>1 DEF DurableInv, LoadedIsValid, TypeOK
  <2>3. CASE SetStored(f, v) \/ SetUnchanged(f, v)
    <3>1. faults' = faults
      BY <2>3 DEF SetStored, SetUnchanged
    <3>2. loaded /\ faults = 0 => Stored' = cache'
      BY <2>3, WriteIsRead
    <3> QED
      BY <2>1, <2>2, <3>1, <3>2 DEF DurableInv, CacheIsDurable
  <2>4. CASE SetFails(f, v)
    <3>1. loaded' => faults' # 0
      BY <2>1, <2>4 DEF SetFails, DurableInv, LoadedIsValid, TypeOK
    <3> QED
      BY <2>2, <3>1 DEF DurableInv, CacheIsDurable
  <2> QED
    BY <1>5, <2>3, <2>4 DEF Set
<1> QED
  BY <1>1, <1>2, <1>3, <1>4, <1>5 DEF SettingsStep

LEMMA AlwaysDurable == CSpec => [](TypeOK /\ DurableInv)
<1>1. CInit => DurableInv
  BY DEF CInit, Init, DurableInv, LoadedIsValid, CacheIsDurable
<1>2. TypeOK /\ TypeOK' /\ DurableInv /\ [CNext]_cvars => DurableInv'
  BY StepDurable
<1> QED
  BY <1>1, <1>2, TypeCorrect, PTL DEF CSpec

\* As long as no write fails, host, panel and timer together never leave the
\* device running by a setting that the next boot would not load.
THEOREM Durable == CSpec => []CacheIsDurable
<1>1. DurableInv => CacheIsDurable
  BY DEF DurableInv
<1> QED
  BY AlwaysDurable, <1>1, PTL

LEMMA StepKept ==
    ASSUME TypeOK, DurableInv, [CNext]_cvars, faults = 0, loaded,
           NEW f \in Caches, Stored'[f] # Stored[f], NEW g \in Caches \ {f}
    PROVE  Stored'[g] = Stored[g]
<1>1. rec' = rec /\ thru' = thru => Stored' = Stored
  BY DEF Stored, Decode
<1>2. PICK h \in Caches : \E v \in Valid[h] : SetStored(h, v)
  BY <1>1, StepSettings DEF SettingsStep, settings, Load, InitReturnsEarly, Crash, Fault, Set,
              SetUnchanged, SetFails
<1>3. PICK v \in Valid[h] : SetStored(h, v)
  BY <1>2
<1>4. Stored' = cache' /\ Stored = cache /\ cache' = [cache EXCEPT ![h] = v]
  BY <1>3, WriteIsRead DEF DurableInv, CacheIsDurable, SetStored
<1>5. cache \in [Caches -> Value]
  BY DEF TypeOK
<1> QED
  BY <1>4, <1>5

\* No setting is lost to the writing of another, whatever length of record the
\* older firmware left.
THEOREM OthersStay == CSpec => OthersKept
<1>1. TypeOK /\ DurableInv /\ [CNext]_cvars =>
        [\A f \in Caches : (faults = 0 /\ loaded /\ Stored'[f] # Stored[f]) =>
            \A g \in Caches \ {f} : Stored'[g] = Stored[g]]_vars
  BY StepKept
<1> QED
  BY <1>1, AlwaysDurable, PTL DEF CSpec, OthersKept

-----------------------------------------------------------------------------
(* The replies.                                                            *)

\* What a setter has written is what the next boot reads, whatever failed or
\* was left of the record before.
LEMMA WrittenIsRead ==
    ASSUME TypeOK, NEW f \in Caches, NEW v \in Valid[f], SetStored(f, v)
    PROVE  Stored'[f] = v
<1>1. cache' = [cache EXCEPT ![f] = v] /\ cache \in [Caches -> Value] /\ v \in Value
  BY SettingsAssumption DEF SetStored, TypeOK
<1>2. cache' \in [Caches -> Value] /\ cache'[f] = v
  BY <1>1
<1>3. BootReads'
  BY StoredReads, PTL
<1>4. CASE f = Thru
  <2>1. thru' = <<v>>
    BY <1>4 DEF SetStored
  <2> QED
    BY <1>3, <1>4, <2>1 DEF BootReads, ByteRead
<1>5. CASE f # Thru
  <2>1. rec' = Record(cache') /\ f \in Field
    BY <1>5 DEF SetStored, Caches
  <2>2. Len(rec') = 3 /\ rec'[f] = v /\ f <= 3
    BY <1>2, <2>1, RecordTyped DEF Field
  <2> QED
    BY <1>3, <2>1, <2>2 DEF BootReads, ByteRead
<1> QED
  BY <1>4, <1>5

Name(f) == IF f = PlayRole THEN "playrole" ELSE "midithru"

\* The answer "ok" to a setter of f for another value than the cache's.
Confirms(f) ==
    /\ reply'.code = "ok" /\ reply'.to # None /\ reply'.ask = Name(f)
    /\ reply'.to # cache[f]

LEMMA HandleDurable ==
    ASSUME TypeOK, NEW f \in {PlayRole, Thru}, NEW r, Handle(r), Confirms(f)
    PROVE  Stored'[f] = reply'.to
<1> USE DEF Confirms, Replies
<1>n. Name(f) \in {"playrole", "midithru"}
  BY DEF Name
<1>1. ~Refused(r)
  BY DEF Refused
<1>2. ~Query(r)
  BY <1>n DEF Query, Queries, Setters
<1>3. ~Monset(r) /\ ~Led(r)
  BY <1>n DEF Monset, Led, Lights
<1>4. ~StoreVerb(r)
  BY <1>n DEF StoreVerb, StoreVerbs
<1>5. Setting(r)
  BY <1>1, <1>2, <1>3, <1>4 DEF Handle
<1> DEFINE g == IF r.t = "playrole" THEN PlayRole ELSE Thru
<1>6. PICK code \in {"ok", "failed"} : Stores(g, r.v, code) /\ Replies(r, code)
  BY <1>5 DEF Setting
<1>7. g = f
  BY <1>6, <1>n DEF Name, PlayRole, Thru, Setting
<1> HIDE DEF g
<1>8. code = "ok" /\ reply'.to = r.v
  BY <1>6
<1>9. SetStored(f, r.v)
  BY <1>6, <1>7, <1>8 DEF Stores
<1>10. f \in Caches /\ r.v \in Valid[f]
  BY <1>9 DEF SetStored, Admitted, Caches, Field, PlayRole, Thru
<1> QED
  BY <1>8, <1>9, <1>10, WrittenIsRead

LEMMA OnlyHandlingConfirms ==
    ASSUME [CNext]_cvars, reply' # reply, NEW f \in {PlayRole, Thru}, Confirms(f)
    PROVE  \E r : Handle(r)
<1>n. Name(f) \in {"playrole", "midithru"} /\ reply' # NoReply
  BY DEF Confirms, Name, NoReply
<1>1. CASE Whole \/ Broken
  <2>1. PICK bytes : Receive(bytes)
    BY <1>1 DEF Whole, Broken
  <2> QED
    BY <1>n, <2>1 DEF Receive
<1>2. CASE Flush
  <2>1. reply'.ask = "flush"
    BY <1>2 DEF Flush, NoReply
  <2> QED
    BY <1>n, <2>1 DEF Confirms
<1>3. CASE Port \/ \E w \in Within : StepProfile(w) \/ SwitchProfile(w)
  BY <1>n, <1>3 DEF Port, StepProfile, SwitchProfile, Hands
<1>4. CASE (\E m \in Modes : FlipMode(m)) \/ \E v \in Valid[Bpm] : Touch(v)
  BY <1>n, <1>4 DEF FlipMode, Touch, Hands
<1>5. CASE Brighten \/ Tick \/ Save \/ Boot \/ PowerCut
  BY <1>n, <1>5 DEF Brighten, Tick, Save, Boot, PowerCut, Hands
<1>6. CASE UNCHANGED cvars
  BY <1>6 DEF cvars
<1> QED
  BY <1>1, <1>2, <1>3, <1>4, <1>5, <1>6 DEF CNext

\* A host that is told "ok" for a new value can pull the plug: of every request,
\* frame and failure, an answer "ok" for a value the cache did not have means
\* flash has it.
THEOREM OkDurable == CSpec => OkIsDurable
<1>1. TypeOK /\ [CNext]_cvars =>
        [\A f \in {PlayRole, Thru} :
            (/\ reply' # reply /\ reply'.code = "ok" /\ reply'.to # None
             /\ reply'.ask = (IF f = PlayRole THEN "playrole" ELSE "midithru")
             /\ reply'.to # cache[f])
            => Stored'[f] = reply'.to]_cvars
  BY HandleDurable, OnlyHandlingConfirms DEF Confirms, Name
<1> QED
  BY <1>1, TypeCorrect, PTL DEF CSpec, OkIsDurable

-----------------------------------------------------------------------------
(* The tempo.                                                              *)

\* What waits to be saved is what the hands set last; once nothing waits, the
\* cache has it.
LastTouch ==
    /\ touched # None => touched \in Valid[Bpm] /\ up
    /\ pending # None => pending = touched
    /\ touched # None /\ pending = None /\ ready => cache[Bpm] = touched

\* The settings' part of a step that leaves the tempo alone.
TempoKept == up' = up /\ ready' = ready /\ cache'[Bpm] = cache[Bpm]

LEMMA SetCache ==
    ASSUME NEW f, NEW v, Set(f, v)
    PROVE  cache' = [cache EXCEPT ![f] = v] /\ UNCHANGED <<up, ready, loaded>>
BY DEF Set, SetStored, SetUnchanged, SetFails

\* A setter changes the byte of its own in the cache and no other.
LEMMA StoresCache ==
    ASSUME NEW f, NEW v, NEW code, Stores(f, v, code)
    PROVE  /\ UNCHANGED <<up, ready, loaded>>
           /\ cache' = cache \/ cache' = [cache EXCEPT ![f] = v]
           /\ ready => (v = cache[f] /\ cache' = cache) \/ cache' = [cache EXCEPT ![f] = v]
<1>1. CASE UNCHANGED settings
  <2>1. UNCHANGED <<up, ready, loaded, cache>>
    BY <1>1 DEF settings
  <2>2. CASE v = cache[f]
    BY <2>1, <2>2
  <2>3. CASE ~ready
    BY <2>1, <2>3
  <2>4. CASE Set(f, v)
    BY <2>1, <2>4, SetCache
  <2> QED
    BY <2>2, <2>3, <2>4 DEF Stores, Set
<1>2. CASE Set(f, v)
  BY <1>2, SetCache
<1> QED
  BY <1>1, <1>2 DEF Stores, Set

LEMMA SetKeepsTempo ==
    ASSUME TypeOK, NEW f \in Caches \ {Bpm}, NEW v, cache' = [cache EXCEPT ![f] = v]
    PROVE  cache'[Bpm] = cache[Bpm]
BY DEF TypeOK, Caches, Field, Bpm

LEMMA StoresKeepTempo ==
    ASSUME TypeOK, NEW f \in Caches \ {Bpm}, NEW v, NEW code, Stores(f, v, code)
    PROVE  TempoKept
<1>1. cache' = cache \/ cache' = [cache EXCEPT ![f] = v]
  BY StoresCache
<1>2. cache'[Bpm] = cache[Bpm]
  BY <1>1, SetKeepsTempo
<1>3. UNCHANGED <<up, ready, loaded>>
  BY StoresCache
<1> QED
  BY <1>2, <1>3 DEF TempoKept

LEMMA HandleKeepsTempo == ASSUME TypeOK, NEW r, Handle(r) PROVE TempoKept
<1>1. CASE Refused(r)
  BY <1>1 DEF Refused, settings, TempoKept
<1>2. CASE Query(r) \/ Monset(r) \/ Led(r)
  BY <1>2 DEF Query, Monset, Led, settings, TempoKept
<1>3. CASE Setting(r)
  <2> DEFINE f == IF r.t = "playrole" THEN PlayRole ELSE Thru
  <2>1. PICK code \in {"ok", "failed"} : Stores(f, r.v, code)
    BY <1>3 DEF Setting
  <2>2. f \in Caches \ {Bpm}
    BY DEF Caches, Field, PlayRole, Thru, Bpm
  <2> QED
    BY <2>1, <2>2, StoresKeepTempo
<1>4. CASE StoreVerb(r)
  BY <1>4 DEF StoreVerb, StoreFails, Fault, settings, TempoKept
<1> QED
  BY <1>1, <1>2, <1>3, <1>4 DEF Handle

LEMMA TempoSteps ==
    ASSUME TypeOK, [CNext]_cvars
    PROVE  \/ UNCHANGED <<pending, touched>> /\ TempoKept
           \/ \E v \in Valid[Bpm] : Touch(v)
           \/ Save \/ Boot \/ PowerCut
<1> USE DEF tempo
<1>1. CASE Whole \/ Broken
  <2>1. PICK bytes : Receive(bytes)
    BY <1>1 DEF Whole, Broken
  <2>2. TempoKept
    BY <2>1, HandleKeepsTempo DEF Receive, TempoKept, settings
  <2> QED
    BY <2>1, <2>2 DEF Receive
<1>2. CASE Flush \/ Port \/ Tick
  BY <1>2 DEF Flush, Port, Tick, TempoKept, settings
<1>3. CASE \E w \in Within : StepProfile(w) \/ SwitchProfile(w)
  BY <1>3 DEF StepProfile, SwitchProfile, TempoKept, settings
<1>4. CASE \E m \in Modes : FlipMode(m)
  BY <1>4 DEF FlipMode, TempoKept, settings
<1>5. CASE Brighten
  <2>1. UNCHANGED <<pending, touched>>
    BY <1>5 DEF Brighten
  <2>2. TempoKept
    <3>1. Set(Brightness, 1 - cache[Brightness])
      BY <1>5 DEF Brighten, Set
    <3>2. Brightness \in Caches \ {Bpm}
      BY DEF Caches, Field, Brightness, Bpm
    <3>3. cache'[Bpm] = cache[Bpm]
      BY <3>1, <3>2, SetCache, SetKeepsTempo
    <3> QED
      BY <3>1, <3>3, SetCache DEF TempoKept
  <2> QED
    BY <2>1, <2>2
<1>6. CASE UNCHANGED cvars
  BY <1>6 DEF cvars, settings, TempoKept
<1> QED
  BY <1>1, <1>2, <1>3, <1>4, <1>5, <1>6 DEF CNext

LEMMA StepLastTouch == TypeOK /\ LastTouch /\ [CNext]_cvars => LastTouch'
<1> SUFFICES ASSUME TypeOK, LastTouch, [CNext]_cvars PROVE LastTouch'
  OBVIOUS
<1>n. \A v \in Valid[Bpm] : v # None
  <2>1. Valid[Bpm] \subseteq Value
    BY SettingsAssumption DEF Caches, Field, Bpm
  <2> QED
    BY <2>1, ConfigAssumption
<1>1. CASE UNCHANGED <<pending, touched>> /\ TempoKept
  BY <1>1 DEF LastTouch, TempoKept
<1>2. CASE \E v \in Valid[Bpm] : Touch(v)
  BY <1>2, <1>n DEF Touch, LastTouch, settings
<1>3. CASE Save
  <2>1. pending # None /\ pending' = None /\ touched' = touched /\ pending = touched
    BY <1>3 DEF Save, LastTouch
  <2>2. PICK code \in {"ok", "failed"} : Stores(Bpm, pending, code)
    BY <1>3 DEF Save
  <2>3. up' = up /\ ready' = ready
    BY <2>2, StoresCache
  <2>4. ready => cache'[Bpm] = pending
    <3>1. ready => (pending = cache[Bpm] /\ cache' = cache) \/ cache' = [cache EXCEPT ![Bpm] = pending]
      BY <2>2, StoresCache
    <3>2. cache' = [cache EXCEPT ![Bpm] = pending] => cache'[Bpm] = pending
      BY DEF TypeOK, Caches, Field, Bpm
    <3> QED
      BY <3>1, <3>2
  <2> QED
    BY <2>1, <2>3, <2>4 DEF LastTouch
<1>4. CASE Boot
  <2>1. ~up /\ UNCHANGED <<pending, touched>>
    BY <1>4 DEF Boot, Load, InitReturnsEarly, tempo
  <2> QED
    BY <2>1 DEF LastTouch
<1>5. CASE PowerCut
  BY <1>5 DEF PowerCut, LastTouch
<1> QED
  BY <1>1, <1>2, <1>3, <1>4, <1>5, TempoSteps

\* No sweep, tap or failure before it makes the timer save any but the last
\* tempo, and no other setting's write brings an older one back.
THEOREM LastIsSaved == CSpec => []SavedIsLastTouched
<1>1. CInit => LastTouch
  BY DEF CInit, LastTouch
<1>2. TypeOK /\ LastTouch /\ [CNext]_cvars => LastTouch'
  BY StepLastTouch
<1>3. DurableInv /\ LastTouch => SavedIsLastTouched
  BY DEF DurableInv, CacheIsDurable, LastTouch, SavedIsLastTouched
<1> QED
  BY <1>1, <1>2, <1>3, TypeCorrect, AlwaysDurable, PTL DEF CSpec

-----------------------------------------------------------------------------
(* What the host was told.                                                 *)

SelOK == sel.mode \in Modes /\ sel.act \in [Modes -> Within]
         /\ sel = [mode |-> sel.mode, act |-> sel.act]

\* A device that is off has no host; a host that is not there was told nothing;
\* the mode is known even where a switch button stepped the profile.
ToldInv ==
    /\ SelOK
    /\ ~up => ~dtr
    /\ ~dtr => shown = Unknown
    /\ shown = [mode |-> shown.mode, active |-> shown.active]
    /\ shown.mode \in {None, Selection.mode}
    /\ ~blind => shown.active \in {None, Active}

\* A step of the selection, and one that tells the host a selection.
Selects == SelOK' /\ UNCHANGED <<dtr, up, loaded>>

TellsTruth ==
    /\ Selects
    /\ \E m \in {None, Selection'.mode}, a \in {None, Active'} : Told(m, a)

LEMMA ToldIsTrue == ASSUME TypeOK, ToldInv, TellsTruth PROVE ToldInv'
<1>1. PICK m \in {None, Selection'.mode}, a \in {None, Active'} : Told(m, a)
  BY DEF TellsTruth
<1>2. CASE dtr
  <2>1. shown' = [mode |-> m, active |-> a] /\ dtr' = dtr /\ up' = up /\ SelOK'
    BY <1>1, <1>2 DEF Told, TellsTruth, Selects
  <2> QED
    BY <1>1, <1>2, <2>1 DEF ToldInv
<1>3. CASE ~dtr
  <2>1. shown' = shown /\ shown = Unknown /\ dtr' = dtr /\ SelOK'
    BY <1>1, <1>3 DEF Told, TellsTruth, Selects, ToldInv
  <2>2. shown' = Unknown /\ ~dtr'
    BY <1>3, <2>1, Zenon
  <2> QED
    BY <2>1, <2>2 DEF ToldInv, Unknown
<1> QED
  BY <1>2, <1>3

\* How a selection is made: of a profile of the bank, or of another mode.
LEMMA SelectOK ==
    ASSUME SelOK, NEW m \in Modes, NEW w \in Within, PS!Select(Chosen(m, w))
    PROVE  SelOK' /\ sel'.mode = m /\ sel'.act[m] = w /\ loaded /\ loaded'
<1>1. sel' = [mode |-> m, act |-> [sel.act EXCEPT ![m] = w]] /\ loaded /\ loaded'
  BY DEF PS!Select, Chosen
<1>2. [sel.act EXCEPT ![m] = w] \in [Modes -> Within]
  BY DEF SelOK
<1> QED
  BY <1>1, <1>2 DEF SelOK

LEMMA FlipOK ==
    ASSUME SelOK, NEW m \in Modes, PS!Select([sel EXCEPT !.mode = m])
    PROVE  SelOK' /\ sel' = [mode |-> m, act |-> sel.act] /\ loaded /\ loaded'
<1>1. sel' = [mode |-> m, act |-> sel.act] /\ loaded /\ loaded'
  BY DEF PS!Select, SelOK
<1> QED
  BY <1>1 DEF SelOK

\* A step that leaves the selection and what the host knows as they are.
Silent == UNCHANGED <<dtr, shown, blind, up, loaded, sel>>

\* A host that asks for the mode learns nothing else.
LearnsMode ==
    /\ dtr /\ UNCHANGED <<dtr, blind, up, loaded, sel>>
    /\ shown' = [shown EXCEPT !.mode = Selection.mode]

LEMMA SelectionKept == ASSUME UNCHANGED <<loaded, sel>> PROVE Selection' = Selection /\ Active' = Active
BY DEF Selection, Active

LEMMA StoresUp == ASSUME NEW f, NEW v, NEW code, Stores(f, v, code) PROVE up' = up /\ loaded' = loaded
BY StoresCache

LEMMA QueryTells ==
    ASSUME ToldInv, NEW r, Query(r), UNCHANGED dtr
    PROVE  Silent \/ TellsTruth \/ LearnsMode
<1>1. UNCHANGED <<up, loaded, sel>>
  BY DEF Query, settings, store
<1>2. Selection' = Selection /\ Active' = Active /\ Selects
  BY <1>1, SelectionKept DEF Selects, ToldInv, SelOK
<1>3. CASE NothingTold
  BY <1>1, <1>3 DEF Silent, NothingTold
<1>4. CASE Told(Selection.mode, Active) \/ Told(shown.mode, Active)
  BY <1>2, <1>4 DEF TellsTruth, ToldInv
<1>5. CASE dtr /\ shown' = [shown EXCEPT !.mode = Selection.mode] /\ UNCHANGED blind
  BY <1>1, <1>5 DEF LearnsMode
<1> QED
  BY <1>3, <1>4, <1>5 DEF Query

LEMMA StoreTells ==
    ASSUME ToldInv, NEW r, Proper(r), StoreVerb(r), UNCHANGED dtr
    PROVE  Silent \/ TellsTruth
<1>1. up' = up
  BY DEF StoreVerb, StoreFails, settings, Fault
<1>2. CASE Write(r) \/ Reset(r) \/ ResetAll(r)
  BY <1>1, <1>2 DEF Write, Reset, ResetAll, PS!Save, PS!Restore, NothingTold, Silent
<1>3. CASE SetActive(r)
  <2>1. r.n \in Within /\ sel.mode \in Modes /\ SelOK
    BY <1>3 DEF SetActive, Proper, ToldInv, SelOK
  <2>2. PS!Select(Chosen(sel.mode, r.n)) /\ Told(shown.mode, r.n)
    BY <1>3 DEF SetActive
  <2>3. SelOK' /\ sel'.mode = sel.mode /\ sel'.act[sel.mode] = r.n /\ loaded /\ loaded'
    BY <2>1, <2>2, SelectOK
  <2>4. Selection' = sel' /\ Active' = r.n /\ Selection = sel
    BY <2>3 DEF Selection, Active
  <2> QED
    BY <1>1, <2>2, <2>3, <2>4 DEF TellsTruth, Selects, ToldInv
<1>4. CASE SetMode(r) /\ r.v # None /\ UNCHANGED settings
  <2>1. r.v \in {0, 1} /\ r.v \in Modes
    BY <1>4, ConfigAssumption DEF SetMode, Proper, Setters, Modes
  <2>2. SelOK' /\ sel'.mode = r.v /\ loaded /\ loaded'
    <3>1. CASE r.v = sel.mode
      <4>1. UNCHANGED store
        BY <1>4, <3>1 DEF SetMode
      <4>2. UNCHANGED settings
        BY <1>4
      <4> QED
        BY <1>4, <3>1, <4>1, <4>2 DEF SetMode, store, settings, ToldInv, SelOK
    <3>2. CASE r.v # sel.mode
      BY <1>4, <2>1, <3>2, FlipOK DEF SetMode, ToldInv
    <3> QED
      BY <3>1, <3>2
  <2>3. Selection'.mode = r.v
    BY <2>2 DEF Selection
  <2> QED
    BY <1>1, <1>4, <2>2, <2>3 DEF SetMode, TellsTruth, Selects
<1>5. CASE StoreFails(r) /\ NothingTold
  <2>1. loaded' = loaded /\ sel' = sel
    BY <1>5 DEF StoreFails, settings, store, Fault, PS!Restore
  <2> QED
    BY <1>1, <1>5, <2>1 DEF NothingTold, Silent
<1> QED
  BY <1>2, <1>3, <1>4, <1>5 DEF StoreVerb, StoreVerbs, SetMode

LEMMA HandleTells ==
    ASSUME ToldInv, NEW r, Handle(r), UNCHANGED dtr
    PROVE  Silent \/ TellsTruth \/ LearnsMode
<1>1. CASE Refused(r)
  BY <1>1 DEF Refused, settings, store, NothingTold, Silent
<1>2. CASE Query(r)
  BY <1>2, QueryTells
<1>3. CASE Monset(r) \/ Led(r)
  BY <1>3 DEF Monset, Led, settings, store, NothingTold, Silent
<1>4. CASE Setting(r)
  <2>1. up' = up /\ loaded' = loaded
    BY <1>4, StoresUp DEF Setting
  <2> QED
    BY <1>4, <2>1 DEF Setting, store, NothingTold, Silent
<1>5. CASE Proper(r) /\ StoreVerb(r)
  BY <1>5, StoreTells
<1> QED
  BY <1>1, <1>2, <1>3, <1>4, <1>5 DEF Handle

LEMMA StepTold == TypeOK /\ ToldInv /\ [CNext]_cvars => ToldInv'
<1> SUFFICES ASSUME TypeOK, ToldInv, [CNext]_cvars PROVE ToldInv'
  OBVIOUS
<1> USE DEF host
<1>s. Silent => ToldInv'
  BY SelectionKept DEF Silent, ToldInv, SelOK
<1>l. LearnsMode => ToldInv'
  <2> SUFFICES ASSUME LearnsMode PROVE ToldInv'
    OBVIOUS
  <2>1. Selection' = Selection /\ Active' = Active
    BY SelectionKept DEF LearnsMode
  <2>2. shown' = [mode |-> Selection.mode, active |-> shown.active]
    BY DEF LearnsMode, ToldInv
  <2>3. SelOK' /\ dtr' /\ up' = up /\ blind' = blind
    BY DEF LearnsMode, ToldInv, SelOK
  <2> QED
    BY <2>1, <2>2, <2>3 DEF ToldInv, LearnsMode
<1>1. CASE Whole \/ Broken
  <2>1. PICK bytes : Receive(bytes)
    BY <1>1 DEF Whole, Broken
  <2>2. UNCHANGED dtr
    BY <2>1 DEF Receive
  <2>3. Silent \/ \E r : Handle(r)
    BY <2>1 DEF Receive, settings, store, NothingTold, Silent
  <2> QED
    BY <2>2, <2>3, HandleTells, ToldIsTrue, <1>s, <1>l
<1>2. CASE Flush \/ Tick
  BY <1>2, <1>s DEF Flush, Tick, Hands, settings, store, NothingTold, Silent
<1>3. CASE Port
  <2>1. shown' = Unknown /\ up /\ up' = up /\ SelOK'
    BY <1>3 DEF Port, settings, store, ToldInv, SelOK
  <2> QED
    BY <2>1 DEF ToldInv, Unknown
<1>4. ASSUME NEW w \in Within, StepProfile(w) PROVE ToldInv'
  <2>1. SelOK' /\ sel'.mode = sel.mode /\ sel'.act[sel.mode] = w /\ loaded /\ loaded'
    BY <1>4, SelectOK DEF StepProfile, ToldInv, SelOK
  <2>2. Selection' = sel' /\ Active' = w /\ Selection = sel
    BY <2>1 DEF Selection, Active
  <2>3. TellsTruth
    BY <1>4, <2>1, <2>2 DEF StepProfile, Hands, settings, TellsTruth, Selects, ToldInv
  <2> QED
    BY <2>3, ToldIsTrue
\* The button tells nobody: if somebody is there, he is out of date.
<1>5. ASSUME NEW w \in Within, SwitchProfile(w) PROVE ToldInv'
  <2>1. SelOK' /\ sel'.mode = sel.mode /\ loaded /\ loaded'
    BY <1>5, SelectOK DEF SwitchProfile, ToldInv, SelOK
  <2>2. Selection'.mode = Selection.mode
    BY <2>1 DEF Selection
  <2>3. up' = up /\ dtr' = dtr /\ blind' = dtr /\ shown' = shown
    BY <1>5 DEF SwitchProfile, Hands, settings
  <2>4. ~blind' => ~dtr
    BY <2>3, Zenon
  <2>5. ~dtr' => shown' = Unknown
    BY <2>3, Zenon DEF ToldInv
  <2>6. ~up' => ~dtr'
    BY <2>3, Zenon DEF ToldInv
  <2>7. ~blind' => shown'.active = None
    BY <2>3, <2>4 DEF ToldInv, Unknown
  <2> QED
    BY <2>1, <2>2, <2>3, <2>5, <2>6, <2>7 DEF ToldInv
<1>6. ASSUME NEW m \in Modes, FlipMode(m) PROVE ToldInv'
  <2>1. SelOK' /\ sel' = [mode |-> m, act |-> sel.act] /\ loaded /\ loaded'
    BY <1>6, FlipOK DEF FlipMode, ToldInv
  <2>2. Selection' = sel' /\ Active' = sel.act[m]
    BY <2>1 DEF Selection, Active
  <2>3. TellsTruth
    BY <1>6, <2>1, <2>2 DEF FlipMode, Hands, settings, TellsTruth, Selects
  <2> QED
    BY <2>3, ToldIsTrue
<1>7. CASE \E v \in Valid[Bpm] : Touch(v)
  BY <1>7, <1>s DEF Touch, Hands, settings, store, NothingTold, Silent
<1>8. CASE Brighten
  <2>1. up' = up /\ loaded' = loaded
    BY <1>8 DEF Brighten, SetStored, SetUnchanged, SetFails
  <2> QED
    BY <1>8, <1>s, <2>1 DEF Brighten, Hands, store, NothingTold, Silent
<1>9. CASE Save
  <2>1. up' = up /\ loaded' = loaded
    BY <1>9, StoresUp DEF Save
  <2> QED
    BY <1>9, <1>s, <2>1 DEF Save, Hands, store, NothingTold, Silent
\* Nobody is there before a boot.
<1>10. CASE Boot
  <2>1. ~up /\ UNCHANGED <<dtr, shown, blind, sel>>
    BY <1>10 DEF Boot, Load, InitReturnsEarly, Hands, store, NothingTold
  <2>2. ~dtr /\ shown = Unknown
    BY <2>1, Zenon DEF ToldInv
  <2>3. ~dtr' /\ shown' = Unknown
    BY <2>1, <2>2, Zenon
  <2>4. SelOK'
    BY <2>1 DEF ToldInv, SelOK
  <2> QED
    BY <2>3, <2>4 DEF ToldInv, Unknown
<1>11. CASE PowerCut
  <2>1. ~dtr' /\ shown' = Unknown
    BY <1>11, Zenon DEF PowerCut
  <2>2. SelOK'
    BY <1>11 DEF PowerCut, store, ToldInv, SelOK
  <2> QED
    BY <2>1, <2>2 DEF ToldInv, Unknown
<1>12. CASE UNCHANGED cvars
  BY <1>12, <1>s DEF cvars, settings, store, Silent
<1> QED
  BY <1>1, <1>2, <1>3, <1>4, <1>5, <1>6, <1>7, <1>8, <1>9, <1>10, <1>11, <1>12 DEF CNext

\* For every bank size: no order of requests, buttons, failures, boots and
\* ports leaves a host with a selection that is not the device's, but for the
\* switch button.
THEOREM MarkerFresh == CSpec => []MarkerIsFresh
<1>1. CInit => ToldInv
  <2> SUFFICES ASSUME CInit PROVE ToldInv
    OBVIOUS
  <2>1. sel = [mode |-> 0, act |-> [m \in Modes |-> 0]]
    BY DEF CInit, PS!FreshSel, PS!Modes, Modes
  <2>2. 0 \in Modes /\ 0 \in Within
    BY ConfigAssumption DEF Modes, Within
  <2>3. SelOK
    BY <2>1, <2>2 DEF SelOK
  <2>4. ~dtr /\ shown = Unknown
    BY Zenon DEF CInit
  <2> QED
    BY <2>3, <2>4 DEF ToldInv, Unknown
<1>2. TypeOK /\ ToldInv /\ [CNext]_cvars => ToldInv'
  BY StepTold
<1>3. ToldInv => MarkerIsFresh
  BY DEF ToldInv, MarkerIsFresh
<1> QED
  BY <1>1, <1>2, <1>3, TypeCorrect, PTL DEF CSpec

-----------------------------------------------------------------------------
(* The framer, byte by byte.                                               *)

\* The least counterexample stands in for induction.
LEMMA LeastNumber ==
    ASSUME NEW B, B \subseteq Nat, B # {}
    PROVE  \E n \in B : \A m \in B : n <= m
<1>1. \A m, n \in Nat : m < n => <<m, n>> \in OpToRel(<, Nat)
  BY DEF OpToRel
<1>2. PICK R : IsWellFoundedOn(R, Nat) /\ \A m, n \in Nat : m < n => <<m, n>> \in R
  BY <1>1, NatLessThanWellFounded, Zenon
<1>3. PICK n \in B : \A m \in B : ~(<<m, n>> \in R)
  BY <1>2, WFMin
<1>4. \A m \in B : ~(m < n)
  BY <1>2, <1>3
<1>5. \A m \in B : n <= m
  BY <1>4
<1> QED
  BY <1>5

\* Induction up to n, on the set of those for which it holds.
LEMMA AllUpTo ==
    ASSUME NEW n \in Nat, NEW G, 0 \in G, \A i \in 1 .. n : i - 1 \in G => i \in G
    PROVE  \A i \in 0 .. n : i \in G
<1> DEFINE Bad == {i \in 0 .. n : i \notin G}
<1> SUFFICES ASSUME Bad # {} PROVE FALSE
  OBVIOUS
<1>1. Bad \subseteq Nat
  OBVIOUS
<1>2. PICK k \in Bad : \A m \in Bad : k <= m
  <2> HIDE DEF Bad
  <2> QED
    BY <1>1, LeastNumber
<1>3. k \in 0 .. n /\ k \notin G
  BY <1>2
<1>4. k # 0 /\ k - 1 \in 0 .. n /\ k - 1 < k /\ k \in 1 .. n
  BY <1>3
<1>5. k - 1 \in G
  BY <1>2, <1>4
<1> QED
  BY <1>3, <1>4, <1>5

\* A machine that takes n inputs one by one, F its steps, has a run.
Machine(S, n, F) == \A s \in S : \A i \in 1 .. n : F[<<s, i>>] \in S

HasRun(S, base, n, F) ==
    \E f \in [0 .. n -> S] : f[0] = base /\ \A i \in 1 .. n : f[i] = F[<<f[i - 1], i>>]

LEMMA RunExists ==
    ASSUME NEW S, NEW base \in S, NEW n \in Nat, NEW F, Machine(S, n, F)
    PROVE  HasRun(S, base, n, F)
<1> USE DEF Machine
<1> DEFINE Upto(k) == \E f \in [0 .. k -> S] :
                        f[0] = base /\ \A i \in 1 .. k : f[i] = F[<<f[i - 1], i>>]
           Good == {k \in 0 .. n : Upto(k)}
<1>1. Upto(0)
  <2> DEFINE f == [i \in 0 .. 0 |-> base]
  <2>1. f \in [0 .. 0 -> S] /\ f[0] = base
    OBVIOUS
  <2>2. 1 .. 0 = {}
    OBVIOUS
  <2> QED
    BY <2>1, <2>2
<1>2. ASSUME NEW k \in 1 .. n, Upto(k - 1) PROVE Upto(k)
  <2>1. PICK f \in [0 .. k - 1 -> S] :
               f[0] = base /\ \A i \in 1 .. k - 1 : f[i] = F[<<f[i - 1], i>>]
    BY <1>2
  <2> DEFINE e == F[<<f[k - 1], k>>]
             g == [i \in 0 .. k |-> IF i < k THEN f[i] ELSE e]
  <2>2. e \in S
    <3>1. f[k - 1] \in S
      BY <2>1
    <3> QED
      BY <3>1
  <2> HIDE DEF e
  <2>3. g \in [0 .. k -> S]
    BY <2>1, <2>2
  <2>4. g[0] = base /\ g[k] = F[<<g[k - 1], k>>]
    <3>1. k - 1 \in 0 .. k /\ k \in 0 .. k /\ 0 \in 0 .. k /\ k - 1 < k /\ ~(k < k) /\ 0 < k
      OBVIOUS
    <3>2. g[0] = f[0] /\ g[k - 1] = f[k - 1] /\ g[k] = e
      BY <3>1
    <3> HIDE DEF g
    <3> QED
      BY <2>1, <3>2 DEF e
  <2>5. \A i \in 1 .. k - 1 : g[i] = F[<<g[i - 1], i>>]
    <3>1. \A i \in 1 .. k - 1 : g[i] = f[i] /\ g[i - 1] = f[i - 1]
      OBVIOUS
    <3> HIDE DEF g
    <3> QED
      BY <2>1, <3>1
  <2>6. \A i \in 1 .. k : i \in 1 .. k - 1 \/ i = k
    OBVIOUS
  <2>7. \A i \in 1 .. k : g[i] = F[<<g[i - 1], i>>]
    <3> HIDE DEF g
    <3> QED
      BY <2>4, <2>5, <2>6
  <2> HIDE DEF g
  <2> QED
    BY <2>3, <2>4, <2>7
<1>3. \A k \in 0 .. n : k \in Good
  <2>1. 0 \in Good
    BY <1>1
  <2>2. \A k \in 1 .. n : k - 1 \in Good => k \in Good
    <3> HIDE DEF Upto
    <3> QED
      BY <1>2
  <2> HIDE DEF Good
  <2> QED
    BY <2>1, <2>2, AllUpTo
<1>4. Upto(n)
  <2> HIDE DEF Upto
  <2> QED
    BY <1>3
<1> QED
  BY <1>4 DEF HasRun

\* Where JSON is after a byte, from where it was before it.
Place(p, c) ==
    CASE p = "out" -> IF c = "q" THEN "in" ELSE "out"
      [] p = "in" -> IF c = "q" THEN "out" ELSE IF c = "b" THEN "esc" ELSE "in"
      [] OTHER -> "in"

Where == {"out", "in", "esc"}

LEMMA InsideRuns ==
    ASSUME NEW w \in Seq(Token)
    PROVE  /\ Inside(w) \in [0 .. Len(w) -> Where]
           /\ Inside(w)[0] = "out"
           /\ \A i \in 1 .. Len(w) : Inside(w)[i] = Place(Inside(w)[i - 1], w[i])
<1> DEFINE n == Len(w)
           F == [x \in Where \X (1 .. n) |-> Place(x[1], w[x[2]])]
           Runs(f) == f = [i \in 0 .. n |-> IF i = 0 THEN "out" ELSE Place(f[i - 1], w[i])]
<1>0. n \in Nat /\ "out" \in Where
  BY DEF Where
<1>1. Machine(Where, n, F)
  BY DEF Where, Place, Machine
<1>2. PICK f \in [0 .. n -> Where] : f[0] = "out" /\ \A i \in 1 .. n : f[i] = F[<<f[i - 1], i>>]
  <2> HIDE DEF F, n
  <2>1. HasRun(Where, "out", n, F)
    BY <1>0, <1>1, RunExists
  <2> QED
    BY <2>1 DEF HasRun
<1>3. \A i \in 1 .. n : f[i - 1] \in Where
  BY <1>0, <1>2
<1>4. \A i \in 1 .. n : f[i] = Place(f[i - 1], w[i])
  BY <1>2, <1>3
<1>5. Runs(f)
  <2> HIDE DEF n, F
  <2> QED
    BY <1>0, <1>2, <1>4
<1>6. Inside(w) = CHOOSE g : Runs(g)
  BY DEF Inside, Place
<1>7. Runs(Inside(w))
  BY <1>5, <1>6
<1>8. /\ Inside(w)[0] = "out"
      /\ \A i \in 1 .. n : Inside(w)[i] = Place(Inside(w)[i - 1], w[i])
  <2> HIDE DEF n
  <2> QED
    BY <1>0, <1>7
<1>9. Inside(w) \in [0 .. n -> Where]
  <2>1. \A i \in 0 .. n : i = 0 \/ i \in 1 .. n
    BY <1>0
  <2>2. \A i \in 0 .. n : Inside(w)[i] \in Where
    BY <1>8, <2>1 DEF Place, Where
  <2> HIDE DEF n
  <2> QED
    BY <1>7, <2>2
<1> QED
  BY <1>8, <1>9


-----------------------------------------------------------------------------
(* Lines, their quotes and what find_value finds in them.                  *)

Tok == Token \cup {"old"}

Quoted(l, n) == Cardinality({j \in 1 .. n : l[j] = "q"})
Odd(l) == Quoted(l, Len(l)) % 2 = 1

\* The verb c stands behind a quote that find_value takes for an opening one.
Bare(l, c) == \E i \in Opening(l) : i < Len(l) /\ l[i + 1] = c

LEMMA QuotedTyped == ASSUME NEW l, NEW n \in Nat PROVE Quoted(l, n) \in Nat
<1> DEFINE A == {j \in 1 .. n : l[j] = "q"}
<1>1. IsFiniteSet(1 .. n) /\ A \subseteq 1 .. n
  BY FS_Interval, 1 \in Int, n \in Int
<1>2. IsFiniteSet(A)
  <2> HIDE DEF A
  <2> QED
    BY <1>1, FS_Subset
<1> QED
  BY <1>2, FS_CardinalityType DEF Quoted

LEMMA QuotedNext ==
    ASSUME NEW l, NEW n \in Nat
    PROVE  /\ Quoted(l, 0) = 0
           /\ Quoted(l, n + 1) = IF l[n + 1] = "q" THEN Quoted(l, n) + 1 ELSE Quoted(l, n)
<1> DEFINE A == {j \in 1 .. n : l[j] = "q"}
           B == {j \in 1 .. n + 1 : l[j] = "q"}
<1>1. IsFiniteSet(A)
  <2>1. IsFiniteSet(1 .. n) /\ A \subseteq 1 .. n
    BY FS_Interval, 1 \in Int, n \in Int
  <2> HIDE DEF A
  <2> QED
    BY <2>1, FS_Subset
<1>2. B = IF l[n + 1] = "q" THEN A \cup {n + 1} ELSE A
  <2>1. \A j : j \in 1 .. n + 1 <=> j \in 1 .. n \/ j = n + 1
    OBVIOUS
  <2> QED
    BY <2>1
<1>3. n + 1 \notin A
  OBVIOUS
<1>4. Cardinality(A \cup {n + 1}) = Cardinality(A) + 1
  BY <1>1, <1>3, FS_AddElement
<1>5. {j \in 1 .. 0 : l[j] = "q"} = {}
  OBVIOUS
<1>6. Quoted(l, 0) = 0
  BY <1>5, FS_EmptySet DEF Quoted
<1>7. Quoted(l, n + 1) = IF l[n + 1] = "q" THEN Cardinality(A) + 1 ELSE Cardinality(A)
  BY <1>2, <1>4 DEF Quoted
<1> QED
  BY <1>6, <1>7 DEF Quoted

\* What stands in the first n bytes is all that counts.
LEMMA QuotedSame ==
    ASSUME NEW l, NEW k, NEW n \in Nat, \A j \in 1 .. n : l[j] = "q" <=> k[j] = "q"
    PROVE  Quoted(l, n) = Quoted(k, n)
<1>1. {j \in 1 .. n : l[j] = "q"} = {j \in 1 .. n : k[j] = "q"}
  OBVIOUS
<1> QED
  BY <1>1 DEF Quoted

LEMMA OddAppend ==
    ASSUME NEW l \in Seq(Tok), NEW c \in Tok
    PROVE  /\ ~Odd(<<>>)
           /\ Odd(Append(l, c)) <=> (IF c = "q" THEN ~Odd(l) ELSE Odd(l))
<1> DEFINE n == Len(l)
           a == Append(l, c)
<1>1. n \in Nat /\ Len(a) = n + 1 /\ a[n + 1] = c /\ \A j \in 1 .. n : a[j] = l[j]
  OBVIOUS
<1> HIDE DEF n, a
<1>2. Quoted(a, n) = Quoted(l, n)
  BY <1>1, QuotedSame
<1>3. Quoted(a, n + 1) = IF c = "q" THEN Quoted(l, n) + 1 ELSE Quoted(l, n)
  BY <1>1, <1>2, QuotedNext
<1>4. Quoted(l, n) \in Nat
  BY <1>1, QuotedTyped
<1>5. Odd(a) <=> (IF c = "q" THEN ~Odd(l) ELSE Odd(l))
  <2>1. Odd(a) <=> Quoted(a, n + 1) % 2 = 1
    BY <1>1 DEF Odd
  <2>2. Odd(l) <=> Quoted(l, n) % 2 = 1
    BY DEF Odd, n
  <2>3. CASE c = "q"
    <3>1. Quoted(a, n + 1) = Quoted(l, n) + 1
      BY <1>3, <2>3
    <3>2. Odd(a) <=> ~Odd(l)
      BY <1>4, <2>1, <2>2, <3>1
    <3> QED
      BY <2>3, <3>2, Zenon
  <2>4. CASE c # "q"
    <3>1. Odd(a) <=> Odd(l)
      BY <1>3, <2>1, <2>2, <2>4
    <3> QED
      BY <2>4, <3>1, Zenon
  <2> QED
    BY <2>3, <2>4
<1>6. ~Odd(<<>>)
  <2>1. Len(<<>>) = 0 /\ Quoted(<<>>, 0) = 0
    BY QuotedNext
  <2> QED
    BY <2>1 DEF Odd
<1> QED
  BY <1>5, <1>6 DEF a

\* A verb comes to stand there only right behind a quote that opens a string.
LEMMA BareAppend ==
    ASSUME NEW l \in Seq(Tok), NEW c \in Tok, NEW v, Bare(Append(l, c), v)
    PROVE  Bare(l, v) \/ (c = v /\ l # <<>> /\ l[Len(l)] = "q" /\ Odd(l))
<1> DEFINE n == Len(l)
           a == Append(l, c)
<1>1. n \in Nat /\ Len(a) = n + 1 /\ a[n + 1] = c /\ \A j \in 1 .. n : a[j] = l[j]
  OBVIOUS
<1>2. PICK i \in Opening(a) : i < Len(a) /\ a[i + 1] = v
  BY DEF Bare
<1>3. i \in 1 .. n /\ a[i] = "q" /\ Quoted(a, i - 1) % 2 = 0
  <2>1. i \in DOMAIN a /\ a[i] = "q" /\ Quoted(a, i - 1) % 2 = 0
    BY <1>2 DEF Opening, Quoted
  <2>2. DOMAIN a = 1 .. n + 1
    OBVIOUS
  <2> HIDE DEF n, a
  <2> QED
    BY <1>1, <1>2, <2>1, <2>2
<1> HIDE DEF n, a
<1>4. l[i] = "q" /\ Quoted(l, i - 1) = Quoted(a, i - 1)
  <2>1. i - 1 \in Nat /\ \A j \in 1 .. i - 1 : j \in 1 .. n
    BY <1>1, <1>3
  <2>2. \A j \in 1 .. i - 1 : a[j] = "q" <=> l[j] = "q"
    BY <1>1, <2>1
  <2> QED
    BY <1>1, <1>3, <2>1, <2>2, QuotedSame
<1>5. i \in DOMAIN l /\ i \in Opening(l)
  BY <1>1, <1>3, <1>4 DEF Opening, Quoted, n
<1>6. CASE i < n
  <2>1. l[i + 1] = v
    BY <1>1, <1>2, <1>3, <1>6
  <2> QED
    BY <1>5, <1>6, <2>1 DEF Bare, n
<1>7. CASE i = n
  <2>1. c = v /\ l[n] = "q" /\ n # 0
    BY <1>1, <1>2, <1>3, <1>4, <1>7
  <2>2. Quoted(l, n) = Quoted(l, n - 1) + 1 /\ Quoted(l, n - 1) % 2 = 0
    BY <1>1, <1>3, <1>4, <1>7, <2>1, QuotedNext, n - 1 \in Nat, (n - 1) + 1 = n
  <2>3. Quoted(l, n - 1) \in Nat
    BY <1>1, <2>1, QuotedTyped
  <2>4. Odd(l)
    BY <2>2, <2>3 DEF Odd, n
  <2> QED
    BY <2>1, <2>4 DEF n
<1> QED
  BY <1>1, <1>3, <1>6, <1>7

LEMMA BareEmpty == ASSUME NEW v PROVE ~Bare(<<>>, v)
BY DEF Bare, Opening

LEMMA FoundIs ==
    ASSUME NEW l \in Seq(Tok)
    PROVE  /\ Found(l) \in {"none", "r", "old"}
           /\ Found(l) = "old" => Bare(l, "old")
<1> DEFINE keys == {i \in Opening(l) : i < Len(l) /\ l[i + 1] \in {"r", "old"}}
<1>1. keys \subseteq Nat
  BY DEF Opening
<1>2. CASE keys = {}
  BY <1>2 DEF Found
<1>3. CASE keys # {}
  <2>1. PICK k \in keys : \A m \in keys : k <= m
    <3> HIDE DEF keys
    <3> QED
      BY <1>1, <1>3, LeastNumber
  <2>2. Min(keys) \in keys
    <3> HIDE DEF keys
    <3> QED
      BY <2>1 DEF Min
  <2>3. Found(l) = l[Min(keys) + 1]
    BY <1>3 DEF Found
  <2>4. l[Min(keys) + 1] \in {"r", "old"}
    BY <2>2
  <2>5. l[Min(keys) + 1] = "old" => Bare(l, "old")
    BY <2>2 DEF Bare
  <2> QED
    BY <2>3, <2>4, <2>5
<1> QED
  BY <1>2, <1>3


-----------------------------------------------------------------------------
(* The bytes of a frame, one after the other.                              *)

States == [line : Seq(Tok), depth : Nat, instr : BOOLEAN, escape : BOOLEAN,
           got : Seq(Tok \cup {"none"})]
Frames == [line : Seq(Tok), depth : Nat, instr : BOOLEAN, escape : BOOLEAN]

Ended(g) == [line |-> <<>>, depth |-> 0, instr |-> FALSE, escape |-> FALSE, got |-> g]

\* What holds of the framer between any two bytes.
Well(s) ==
    /\ s \in States /\ Len(s.line) < LineCap
    /\ s.line = <<>> => s.depth = 0 /\ ~s.instr
    /\ s.escape => s.instr

LEMMA EndedWell == ASSUME NEW g \in Seq(Tok \cup {"none"}) PROVE Well(Ended(g))
BY ConfigAssumption DEF Well, Ended, States

LEMMA TookIs ==
    ASSUME NEW s \in States, NEW c \in Tok
    PROVE  /\ Took(s, c) \in States
           /\ Took(s, c).line = Append(s.line, c) /\ Took(s, c).depth = s.depth
           /\ Took(s, c).instr = s.instr /\ Took(s, c).escape = s.escape
           /\ Took(s, c).got = s.got
           /\ Len(Took(s, c).line) = Len(s.line) + 1
BY DEF Took, States

\* The outcomes of a byte.
Skips(s, t, c) == s.line = <<>> /\ c = "w" /\ t = s
Drops(s, t) == Full(s) /\ t = Ended(s.got)
Takes(s, t, c) ==
    /\ ~Full(s) /\ t.line = Append(s.line, c) /\ t.got = s.got /\ t \in States
    /\ \/ /\ s.instr /\ t.depth = s.depth
          /\ t.escape = (~s.escape /\ c = "b") /\ t.instr = (s.escape \/ c # "q")
       \/ /\ ~s.instr /\ t.escape = s.escape /\ t.instr = (c = "q")
          /\ t.depth = IF c = "open" THEN s.depth + 1
                       ELSE IF c = "close" THEN s.depth - 1 ELSE s.depth
          /\ c = "close" => s.depth > 1
Completes(s, t, c) ==
    /\ ~Full(s) /\ ~s.instr /\ c = "close" /\ s.depth <= 1
    /\ t = Ended(Append(s.got, Found(Append(s.line, c))))

Outcome(s, t, c) == Skips(s, t, c) \/ Drops(s, t) \/ Takes(s, t, c) \/ Completes(s, t, c)

LEMMA ByteIs ==
    ASSUME NEW s, Well(s), NEW c \in Token
    PROVE  Outcome(s, FeedByte(s, c), c)
<1> SUFFICES ASSUME NEW t, t = FeedByte(s, c), NEW k, k = Took(s, c)
             PROVE  Outcome(s, t, c)
  OBVIOUS
<1>0. s \in States /\ c \in Tok /\ s.depth \in Nat
  BY DEF Well, Tok, States
<1>k. /\ k \in States /\ k.line = Append(s.line, c) /\ k.depth = s.depth
      /\ k.instr = s.instr /\ k.escape = s.escape /\ k.got = s.got
  BY <1>0, TookIs
<1>5. PICK d \in Nat : d = s.depth
  BY <1>0
<1>1. CASE s.line = <<>> /\ c = "w"
  BY <1>1 DEF FeedByte, Skips, Outcome
<1>2. CASE ~(s.line = <<>> /\ c = "w") /\ Full(s)
  <2>1. t = Overrun(s)
    BY <1>2 DEF FeedByte
  <2>2. t = Ended(s.got)
    BY <1>0, <2>1 DEF Overrun, Ended, States
  <2> QED
    BY <1>2, <2>2 DEF Drops, Outcome
<1>3. CASE ~(s.line = <<>> /\ c = "w") /\ ~Full(s) /\ s.instr
  <2>1. t = [k EXCEPT !.escape = ~s.escape /\ c = "b", !.instr = s.escape \/ c # "q"]
    BY <1>3 DEF FeedByte, InString
  <2>2. /\ t.line = k.line /\ t.got = k.got /\ t.depth = k.depth /\ t \in States
        /\ t.escape = (~s.escape /\ c = "b") /\ t.instr = (s.escape \/ c # "q")
    BY <1>0, <1>k, <2>1 DEF States
  <2> QED
    BY <1>3, <1>k, <2>2 DEF Takes, Outcome
<1>4. CASE ~(s.line = <<>> /\ c = "w") /\ ~Full(s) /\ ~s.instr
  <2>1. CASE c = "q"
    <3>1. t = [k EXCEPT !.instr = TRUE]
      BY <1>4, <2>1 DEF FeedByte
    <3> QED
      BY <1>0, <1>4, <1>k, <2>1, <3>1 DEF States, Takes, Outcome
  <2>2. CASE c = "open"
    <3>1. t = [k EXCEPT !.depth = s.depth + 1]
      BY <1>4, <2>2 DEF FeedByte
    <3>2. /\ t.line = k.line /\ t.got = k.got /\ t.depth = s.depth + 1 /\ t \in States
          /\ t.escape = k.escape /\ t.instr = k.instr
      BY <1>0, <1>5, <1>k, <3>1 DEF States
    <3>3. t.instr = (c = "q")
      BY <1>k, <1>4, <2>2, <3>2 DEF States
    <3> QED
      BY <1>4, <1>k, <2>2, <3>2, <3>3 DEF Takes, Outcome
  <2>3. CASE c = "close" /\ d > 1
    <3>0. ~Closes(s)
      BY <1>5, <2>3 DEF Closes
    <3>1. t = [k EXCEPT !.depth = s.depth - 1]
      BY <1>4, <2>3, <3>0 DEF FeedByte
    <3>2. /\ t.line = k.line /\ t.got = k.got /\ t.depth = s.depth - 1 /\ t \in States
          /\ t.escape = k.escape /\ t.instr = k.instr
      BY <1>0, <1>5, <1>k, <2>3, <3>1 DEF States
    <3>3. t.instr = (c = "q")
      BY <1>k, <1>4, <2>3, <3>2 DEF States
    <3> QED
      BY <1>4, <1>5, <1>k, <2>3, <3>2, <3>3 DEF Takes, Outcome
  <2>4. CASE c = "close" /\ d <= 1
    <3>1. t = Line(k)
      BY <1>4, <1>5, <2>4 DEF FeedByte, Closes
    <3>2. t = Ended(Append(s.got, Found(Append(s.line, c))))
      BY <1>4, <1>k, <3>1 DEF Line, Ended, States, Well
    <3> QED
      BY <1>4, <1>5, <2>4, <3>2 DEF Completes, Outcome
  <2>5. CASE c \notin {"q", "open", "close"}
    <3>1. t = k
      BY <1>4, <2>5 DEF FeedByte
    <3> QED
      BY <1>0, <1>4, <1>k, <2>5, <3>1 DEF States, Takes, Outcome
  <2> QED
    BY <1>5, <2>1, <2>2, <2>3, <2>4, <2>5
<1> QED
  BY <1>1, <1>2, <1>3, <1>4

LEMMA ByteWell == ASSUME NEW s, Well(s), NEW c \in Token PROVE Well(FeedByte(s, c))
<1> SUFFICES ASSUME NEW t, Outcome(s, t, c) PROVE Well(t)
  BY ByteIs
<1>0. s \in States /\ c \in Tok /\ Len(s.line) \in Nat
  BY DEF Well, Tok, States
<1>1. CASE Skips(s, t, c)
  BY <1>1 DEF Skips
<1>2. CASE Drops(s, t)
  BY <1>0, <1>2, EndedWell DEF Drops, States
<1>3. CASE Takes(s, t, c)
  <2>1. Len(t.line) = Len(s.line) + 1 /\ t.line # <<>>
    <3>1. t.line = Append(s.line, c) /\ s.line \in Seq(Tok)
      BY <1>0, <1>3 DEF Takes, States
    <3> QED
      BY <1>0, <3>1
  <2>2. Len(t.line) < LineCap
    <3>1. ~(Len(s.line) >= LineCap - 1)
      BY <1>3 DEF Takes, Full
    <3> QED
      BY <1>0, <2>1, <3>1, ConfigAssumption
  <2>3. t.escape => t.instr
    BY <1>0, <1>3 DEF Takes, Well, States
  <2> QED
    BY <1>3, <2>1, <2>2, <2>3 DEF Takes, Well
<1>4. CASE Completes(s, t, c)
  <2>1. Append(s.line, c) \in Seq(Tok)
    BY <1>0 DEF States
  <2>2. Found(Append(s.line, c)) \in Tok \cup {"none"}
    BY <2>1, FoundIs DEF Tok, Token
  <2>3. Append(s.got, Found(Append(s.line, c))) \in Seq(Tok \cup {"none"})
    BY <1>0, <2>2 DEF States
  <2> QED
    BY <1>4, <2>3, EndedWell DEF Completes
<1> QED
  BY <1>1, <1>2, <1>3, <1>4 DEF Outcome

\* at holds the framer's states while it takes the bytes.
Feeds(at, bytes) ==
    /\ at[0] = Polled /\ Fed(bytes) = at[Len(bytes)]
    /\ \A i \in 0 .. Len(bytes) : Well(at[i])
    /\ \A i \in 1 .. Len(bytes) : at[i] = FeedByte(at[i - 1], bytes[i])

WellFramed == frame \in Frames /\ Well(Polled)

LEMMA FedRuns ==
    ASSUME WellFramed, NEW bytes \in Seq(Token)
    PROVE  \E at : Feeds(at, bytes)
<1> DEFINE S == {s \in States : Well(s)}
           n == Len(bytes)
           F == [x \in S \X (1 .. n) |-> FeedByte(x[1], bytes[x[2]])]
           base == Polled
           Runs(f) == f = [i \in 0 .. n |-> IF i = 0 THEN Polled
                                            ELSE FeedByte(f[i - 1], bytes[i])]
<1>0. n \in Nat /\ base \in S
  BY DEF WellFramed, Well
<1>1. Machine(S, n, F)
  <2>1. ASSUME NEW s \in S, NEW i \in 1 .. n PROVE F[<<s, i>>] \in S
    <3>1. bytes[i] \in Token
      OBVIOUS
    <3>2. Well(FeedByte(s, bytes[i]))
      BY <3>1, ByteWell
    <3>3. FeedByte(s, bytes[i]) \in S
      BY <3>2 DEF Well
    <3>4. F[<<s, i>>] = FeedByte(s, bytes[i])
      OBVIOUS
    <3> QED
      BY <3>3, <3>4
  <2> QED
    BY <2>1 DEF Machine
<1>2. PICK f \in [0 .. n -> S] : f[0] = base /\ \A i \in 1 .. n : f[i] = F[<<f[i - 1], i>>]
  <2> HIDE DEF F, n, S, base
  <2>1. HasRun(S, base, n, F)
    BY <1>0, <1>1, RunExists
  <2> QED
    BY <2>1 DEF HasRun
<1>3. \A i \in 1 .. n : f[i - 1] \in S
  <2> HIDE DEF S
  <2> QED
    BY <1>0, <1>2
<1>4. \A i \in 1 .. n : f[i] = FeedByte(f[i - 1], bytes[i])
  <2> HIDE DEF S, n
  <2> QED
    BY <1>2, <1>3
<1>5. Runs(f)
  <2> HIDE DEF n, F, S
  <2> QED
    BY <1>0, <1>2, <1>4
<1>6. Fed(bytes) = (CHOOSE g : Runs(g))[n]
  BY DEF Fed
<1> DEFINE at == CHOOSE g : Runs(g)
<1>7. Runs(at)
  BY <1>5
<1>8. at[0] = base /\ \A i \in 1 .. n : at[i] = FeedByte(at[i - 1], bytes[i])
  <2>1. at = [i \in 0 .. n |-> IF i = 0 THEN Polled ELSE FeedByte(at[i - 1], bytes[i])]
    BY <1>7
  <2> HIDE DEF n, at
  <2>2. \A i \in 1 .. n : i \in 0 .. n /\ i # 0
    BY <1>0
  <2>3. 0 \in 0 .. n
    BY <1>0
  <2> QED
    BY <2>1, <2>2, <2>3, Zenon
<1>9. \A i \in 0 .. n : Well(at[i])
  <2> DEFINE Good == {i \in 0 .. n : Well(at[i])}
  <2> HIDE DEF at
  <2>1. 0 \in Good
    BY <1>0, <1>8
  <2>2. ASSUME NEW k \in 1 .. n, k - 1 \in Good PROVE k \in Good
    <3>1. bytes[k] \in Token /\ Well(at[k - 1])
      BY <2>2
    <3> QED
      BY <1>8, <3>1, ByteWell
  <2> HIDE DEF Good, n
  <2>3. \A i \in 0 .. n : i \in Good
    BY <1>0, <2>1, <2>2, AllUpTo
  <2> QED
    BY <2>3 DEF Good
<1> QED
  BY <1>6, <1>8, <1>9 DEF Feeds


LEMMA FedWell ==
    ASSUME WellFramed, NEW bytes \in Seq(Token)
    PROVE  Well(Fed(bytes))
<1>1. PICK at : Feeds(at, bytes)
  BY FedRuns
<1>2. Len(bytes) \in 0 .. Len(bytes)
  OBVIOUS
<1> QED
  BY <1>1, <1>2 DEF Feeds

LEMMA KeptIs ==
    ASSUME NEW s \in States
    PROVE  /\ Kept(s) \in Frames /\ Len(Kept(s).line) = Len(s.line)
           /\ Kept(s).depth = s.depth /\ Kept(s).instr = s.instr /\ Kept(s).escape = s.escape
           /\ \A i \in 1 .. Len(s.line) :
                Kept(s).line[i] = IF s.line[i] = "r" THEN "old" ELSE s.line[i]
<1> DEFINE l == s.line
           k == [i \in DOMAIN l |-> IF l[i] = "r" THEN "old" ELSE l[i]]
<1>1. l \in Seq(Tok) /\ "old" \in Tok
  BY DEF States, Tok
<1>2. Len(l) \in Nat /\ DOMAIN l = 1 .. Len(l) /\ \A i \in 1 .. Len(l) : l[i] \in Tok
  BY <1>1
<1>3. k \in [1 .. Len(l) -> Tok]
  <2> HIDE DEF l
  <2> QED
    BY <1>1, <1>2
<1>4. k \in Seq(Tok) /\ Len(k) = Len(l)
  <2> HIDE DEF k, l
  <2> QED
    BY <1>2, <1>3
<1>5. Kept(s).line = k
  BY DEF Kept
<1>6. \A i \in 1 .. Len(l) : k[i] = IF l[i] = "r" THEN "old" ELSE l[i]
  <2> HIDE DEF l
  <2> QED
    BY <1>2
<1>7. /\ Kept(s).depth = s.depth /\ Kept(s).instr = s.instr /\ Kept(s).escape = s.escape
      /\ s.depth \in Nat /\ s.instr \in BOOLEAN /\ s.escape \in BOOLEAN
  BY DEF Kept, States
<1>8. Kept(s) = [line |-> k, depth |-> s.depth, instr |-> s.instr, escape |-> s.escape]
  BY DEF Kept
<1> HIDE DEF k
<1>9. Kept(s) \in Frames
  BY <1>4, <1>7, <1>8 DEF Frames
<1> QED
  BY <1>4, <1>5, <1>6, <1>7, <1>9

LEMMA KeptWell ==
    ASSUME NEW s, Well(s)
    PROVE  LET f == Kept(s)
           IN  /\ f \in Frames
               /\ Well([line |-> f.line, depth |-> f.depth, instr |-> f.instr,
                        escape |-> f.escape, got |-> <<>>])
<1> SUFFICES ASSUME NEW f, f = Kept(s),
                    NEW t, t = [line |-> f.line, depth |-> f.depth, instr |-> f.instr,
                                escape |-> f.escape, got |-> <<>>]
             PROVE  f \in Frames /\ Well(t)
  OBVIOUS
<1>0. s \in States
  BY DEF Well
<1>1. /\ f \in Frames /\ Len(f.line) = Len(s.line)
      /\ f.depth = s.depth /\ f.instr = s.instr /\ f.escape = s.escape
  BY <1>0, KeptIs
<1>2. /\ t.line = f.line /\ t.depth = f.depth /\ t.instr = f.instr /\ t.escape = f.escape
      /\ t \in States
  BY <1>1 DEF Frames, States
<1>3. f.line \in Seq(Tok) /\ s.line \in Seq(Tok)
  BY <1>0, <1>1 DEF Frames, States
<1>4. f.line = <<>> => s.line = <<>>
  BY <1>1, <1>3
<1> QED
  BY <1>1, <1>2, <1>4 DEF Well

LEMMA KeptEnded == ASSUME NEW g PROVE Kept(Ended(g)) = Rest
<1>1. [i \in DOMAIN <<>> |-> IF <<>>[i] = "r" THEN "old" ELSE <<>>[i]] = <<>>
  OBVIOUS
<1> QED
  BY <1>1 DEF Kept, Ended, Rest

LEMMA RestWell == ASSUME frame = Rest PROVE WellFramed /\ Polled = Ended(<<>>)
<1>1. Polled = Ended(<<>>)
  BY DEF Polled, Ended, Rest
<1>2. <<>> \in Seq(Tok \cup {"none"})
  OBVIOUS
<1>3. Rest \in Frames
  BY DEF Rest, Frames
<1> QED
  BY <1>1, <1>2, <1>3, EndedWell DEF WellFramed

\* White space as long as a line brings the framer to rest from wherever it is.
LEMMA FlushRests ==
    ASSUME WellFramed
    PROVE  Kept(Fed([i \in 1 .. LineCap |-> "w"])) = Rest
<1> DEFINE w == [i \in 1 .. LineCap |-> "w"]
           n == Len(w)
<1>1. w \in Seq(Token) /\ n = LineCap /\ n \in Nat \ {0} /\ \A i \in 1 .. n : w[i] = "w"
  BY ConfigAssumption DEF Token
<1> HIDE DEF w
<1>2. PICK at : Feeds(at, w)
  BY <1>1, FedRuns
<1> DEFINE J(i) == \/ at[i] = Ended(<<>>)
                   \/ at[i].line # <<>> /\ at[i].got = <<>> /\ Len(at[i].line) > i
           Good == {i \in 0 .. n : J(i)}
<1> HIDE DEF n
<1>3. J(0)
  <2>1. at[0] = Polled /\ Polled.got = <<>> /\ frame \in Frames /\ Well(Polled)
    BY <1>2 DEF Feeds, Polled, WellFramed
  <2>2. CASE frame.line = <<>>
    <3>1. frame.depth = 0 /\ ~frame.instr /\ ~frame.escape
      BY <2>1, <2>2 DEF Well, Polled
    <3>2. Polled = Ended(<<>>)
      BY <2>1, <2>2, <3>1 DEF Polled, Ended, Frames
    <3> QED
      BY <2>1, <3>2
  <2>3. CASE frame.line # <<>>
    <3>1. Polled.line = frame.line /\ frame.line \in Seq(Tok)
      BY <2>1 DEF Polled, Frames
    <3>2. Len(frame.line) > 0
      BY <2>3, <3>1
    <3> QED
      BY <2>1, <2>3, <3>1, <3>2
  <2> QED
    BY <2>2, <2>3
<1>4. ASSUME NEW i \in 1 .. n, J(i - 1) PROVE J(i)
  <2>1. /\ at[i] = FeedByte(at[i - 1], "w") /\ Well(at[i - 1]) /\ i - 1 \in 0 .. n /\ i \in Nat
    BY <1>1, <1>2 DEF Feeds, n
  <2>2. PICK s, t : s = at[i - 1] /\ t = at[i]
    OBVIOUS
  <2>3. CASE s = Ended(<<>>)
    <3>1. s.line = <<>>
      BY <2>3 DEF Ended
    <3>2. t = s
      BY <2>1, <2>2, <3>1 DEF FeedByte
    <3> QED
      BY <2>2, <2>3, <3>2
  <2>4. CASE s.line # <<>> /\ s.got = <<>> /\ Len(s.line) > i - 1
    <3>1. Outcome(s, t, "w") /\ s.line \in Seq(Tok)
      BY <2>1, <2>2, ByteIs DEF Token, Well, States
    <3>2. ~Skips(s, t, "w") /\ ~Completes(s, t, "w")
      BY <2>4 DEF Skips, Completes
    <3>3. CASE Drops(s, t)
      BY <2>2, <2>4, <3>3 DEF Drops
    <3>4. CASE Takes(s, t, "w")
      <4>1. t.line = Append(s.line, "w") /\ t.got = <<>>
        BY <2>4, <3>4 DEF Takes
      <4>2. t.line # <<>> /\ Len(t.line) = Len(s.line) + 1 /\ Len(s.line) \in Nat
        BY <3>1, <4>1 DEF Tok, Token
      <4>3. Len(t.line) > i
        BY <2>1, <2>4, <4>2
      <4> QED
        BY <2>2, <4>1, <4>2, <4>3
    <3> QED
      BY <3>1, <3>2, <3>3, <3>4 DEF Outcome
  <2> QED
    BY <1>4, <2>2, <2>3, <2>4
<1>5. \A i \in 0 .. n : i \in Good
  <2> HIDE DEF J
  <2>1. 0 \in Good /\ \A i \in 1 .. n : i - 1 \in Good => i \in Good
    BY <1>1, <1>3, <1>4
  <2> HIDE DEF Good
  <2> QED
    BY <1>1, <2>1, AllUpTo
<1>6. J(n)
  <2> HIDE DEF J
  <2> QED
    BY <1>1, <1>5
<1>7. Well(at[n]) /\ Fed(w) = at[n]
  BY <1>1, <1>2 DEF Feeds, n
<1>8. ~(Len(at[n].line) > n)
  <2>1. at[n].line \in Seq(Tok) /\ Len(at[n].line) < n
    BY <1>1, <1>7 DEF Well, States
  <2>2. Len(at[n].line) \in Nat
    BY <2>1
  <2> QED
    BY <1>1, <2>1, <2>2
<1>9. Fed(w) = Ended(<<>>)
  BY <1>6, <1>7, <1>8
<1> QED
  BY <1>9, KeptEnded DEF w


\* What is known of a frame that a host sends.
LEMMA RequestIs ==
    ASSUME NEW w \in Shapes
    PROVE  /\ w \in Seq(Token) /\ Len(w) \in Nat /\ Len(w) > 1
           /\ w[Len(w)] = "close" /\ Inside(w)[Len(w) - 1] = "out"
           /\ Inside(w)[0] = "out"
           /\ \A i \in 1 .. Len(w) :
                /\ w[i] \in Token
                /\ Inside(w)[i - 1] \in Where /\ Inside(w)[i] \in Where
                /\ Inside(w)[i] = Place(Inside(w)[i - 1], w[i])
                /\ Inside(w)[i - 1] = "out" =>
                     (w[i] = "open" <=> i = 1) /\ (w[i] = "close" <=> i = Len(w))
                /\ w[i] = "r" => i = 3 /\ w[2] = "q"
<1>1. IsRequest(w)
  BY ConfigAssumption
<1>2. /\ w \in Seq(Token) /\ Len(w) > 1 /\ w[Len(w)] = "close" /\ Inside(w)[Len(w) - 1] = "out"
      /\ \A i \in 1 .. Len(w) : Inside(w)[i - 1] = "out" =>
           (w[i] = "open" <=> i = 1) /\ (w[i] = "close" <=> i = Len(w))
      /\ \A i \in 1 .. Len(w) : w[i] = "r" => i = 3 /\ w[2] = "q"
  BY <1>1, Zenon DEF IsRequest
<1>3. Len(w) \in Nat /\ \A i \in 1 .. Len(w) : w[i] \in Token /\ i - 1 \in 0 .. Len(w) /\ i \in 0 .. Len(w)
  BY <1>2
<1>4. /\ Inside(w) \in [0 .. Len(w) -> Where]
      /\ Inside(w)[0] = "out"
      /\ \A i \in 1 .. Len(w) : Inside(w)[i] = Place(Inside(w)[i - 1], w[i])
  BY <1>2, InsideRuns
<1>5. \A i \in 1 .. Len(w) : Inside(w)[i - 1] \in Where /\ Inside(w)[i] \in Where
  BY <1>3, <1>4
<1> QED
  BY <1>2, <1>3, <1>4, <1>5

\* A framer at rest takes a frame that fits for one line and is at rest again.
LEMMA WholeRests ==
    ASSUME frame = Rest, NEW w \in Shapes, Len(w) < LineCap
    PROVE  Kept(Fed(w)) = Rest
<1>1. PICK n \in Nat : n = Len(w) - 1 /\ n > 0 /\ Len(w) = n + 1
  BY RequestIs
<1>2. PICK at : Feeds(at, w)
  BY RequestIs, RestWell, FedRuns
<1>3. /\ at[0] = Ended(<<>>) /\ Fed(w) = at[n + 1]
      /\ \A i \in 0 .. n : Well(at[i])
      /\ \A i \in 1 .. n + 1 : at[i] = FeedByte(at[i - 1], w[i]) /\ w[i] \in Token
  BY <1>1, <1>2, RestWell, RequestIs DEF Feeds
<1>4. \A i \in 1 .. n + 1 :
         /\ Inside(w)[i - 1] \in Where
         /\ Inside(w)[i] = Place(Inside(w)[i - 1], w[i])
         /\ Inside(w)[i - 1] = "out" => (w[i] = "open" <=> i = 1) /\ (w[i] = "close" <=> i = n + 1)
  BY <1>1, RequestIs
<1>5. Inside(w)[0] = "out" /\ Inside(w)[n] = "out" /\ w[n + 1] = "close" /\ n + 1 < LineCap
  BY <1>1, RequestIs
<1> DEFINE J(i) == /\ Len(at[i].line) = i /\ at[i].got = <<>>
                   /\ at[i].instr = (Inside(w)[i] # "out")
                   /\ at[i].escape = (Inside(w)[i] = "esc")
                   /\ at[i].depth = IF i = 0 THEN 0 ELSE 1
           Good == {i \in 0 .. n : J(i)}
\* Such a frame neither begins with white space nor fills the line.
<1>6. ASSUME NEW i \in 0 .. n, J(i)
      PROVE  Takes(at[i], at[i + 1], w[i + 1]) \/ Completes(at[i], at[i + 1], w[i + 1])
  <2>1. PICK s, t, c : s = at[i] /\ t = at[i + 1] /\ c = w[i + 1]
    OBVIOUS
  <2>2. i + 1 \in 1 .. n + 1 /\ (i + 1) - 1 = i
    BY <1>1
  <2>3. t = FeedByte(s, c) /\ Well(s) /\ c \in Token
    BY <1>3, <2>1, <2>2
  <2>4. Outcome(s, t, c)
    BY <2>3, ByteIs
  <2>5. ~Drops(s, t)
    BY <1>5, <1>6, <2>1, ConfigAssumption DEF Drops, Full
  <2>6. ~Skips(s, t, c)
    <3> SUFFICES ASSUME Skips(s, t, c) PROVE FALSE
      OBVIOUS
    <3>1. i = 0 /\ c = "w"
      BY <1>6, <2>1 DEF Skips
    <3>2. w[1] = "open"
      BY <1>1, <1>4, <1>5, 1 \in 1 .. n + 1, 1 - 1 = 0
    <3> QED
      BY <2>1, <3>1, <3>2
  <2> QED
    BY <2>1, <2>4, <2>5, <2>6 DEF Outcome
<1>7. J(0)
  <2>1. /\ at[0].line = <<>> /\ at[0].got = <<>> /\ at[0].instr = FALSE
        /\ at[0].escape = FALSE /\ at[0].depth = 0
    BY <1>3 DEF Ended
  <2>2. Len(at[0].line) = 0
    BY <2>1
  <2>3. at[0].instr = (Inside(w)[0] # "out") /\ at[0].escape = (Inside(w)[0] = "esc")
    BY <1>5, <2>1
  <2> QED
    BY <2>1, <2>2, <2>3
<1>8. ASSUME NEW i \in 1 .. n, J(i - 1) PROVE J(i)
  <2>1. PICK s, t, c, p, q : /\ s = at[i - 1] /\ t = at[i] /\ c = w[i]
                             /\ p = Inside(w)[i - 1] /\ q = Inside(w)[i]
    OBVIOUS
  <2>2. i - 1 \in 0 .. n /\ (i - 1) + 1 = i /\ i \in 1 .. n + 1 /\ i # n + 1 /\ i # 0
    BY <1>1
  <2>3. Takes(s, t, c) \/ Completes(s, t, c)
    BY <1>6, <1>8, <2>1, <2>2
  <2>4. /\ Well(s) /\ Len(s.line) = i - 1 /\ s.got = <<>>
        /\ s.instr = (p # "out") /\ s.escape = (p = "esc")
        /\ s.depth = IF i = 1 THEN 0 ELSE 1
    BY <1>3, <1>8, <2>1, <2>2
  <2>5. /\ p \in Where /\ q = Place(p, c) /\ (i = 1 => p = "out")
        /\ p = "out" => (c = "open" <=> i = 1) /\ c # "close"
    BY <1>4, <1>5, <2>1, <2>2
  <2>6. Takes(s, t, c)
    BY <2>3, <2>4, <2>5 DEF Completes
  <2>7. t.line = Append(s.line, c) /\ t.got = <<>> /\ s.line \in Seq(Tok)
    BY <2>4, <2>6 DEF Takes, Well, States
  <2>8. Len(t.line) = i
    BY <2>2, <2>4, <2>7
  <2>9. t.instr = (q # "out") /\ t.escape = (q = "esc") /\ t.depth = 1
    <3>1. CASE p = "out"
      <4>1. ~s.instr /\ ~s.escape
        BY <2>4, <3>1
      <4>2. /\ t.escape = s.escape /\ t.instr = (c = "q")
            /\ t.depth = IF c = "open" THEN s.depth + 1
                         ELSE IF c = "close" THEN s.depth - 1 ELSE s.depth
        BY <2>6, <4>1 DEF Takes
      <4>3. q = IF c = "q" THEN "in" ELSE "out"
        BY <2>5, <3>1 DEF Place
      <4>4. t.depth = 1
        BY <2>4, <2>5, <3>1, <4>2
      <4> QED
        BY <2>4, <3>1, <4>1, <4>2, <4>3, <4>4
    <3>2. CASE p # "out"
      <4>1. s.instr /\ i # 1
        BY <2>4, <2>5, <3>2
      <4>2. /\ t.escape = (~s.escape /\ c = "b") /\ t.instr = (s.escape \/ c # "q")
            /\ t.depth = s.depth
        BY <2>6, <4>1 DEF Takes
      <4>3. CASE p = "in"
        <5>1. q = IF c = "q" THEN "out" ELSE IF c = "b" THEN "esc" ELSE "in"
          BY <2>5, <4>3 DEF Place
        <5>2. ~s.escape
          BY <2>4, <4>3
        <5> QED
          BY <2>4, <4>1, <4>2, <5>1, <5>2
      <4>4. CASE p = "esc"
        <5>1. q = "in"
          BY <2>5, <4>4 DEF Place
        <5>2. s.escape
          BY <2>4, <4>4
        <5> QED
          BY <2>4, <4>1, <4>2, <5>1, <5>2
      <4> QED
        BY <2>5, <3>2, <4>3, <4>4 DEF Where
    <3> QED
      BY <3>1, <3>2
  <2> QED
    BY <2>1, <2>2, <2>7, <2>8, <2>9
<1>9. J(n)
  <2> HIDE DEF J
  <2>1. 0 \in Good /\ \A i \in 1 .. n : i - 1 \in Good => i \in Good
    BY <1>7, <1>8
  <2>2. \A i \in 0 .. n : i \in Good
    <3> HIDE DEF Good
    <3> QED
      BY <2>1, AllUpTo
  <2> QED
    BY <2>2, n \in 0 .. n
<1>10. Fed(w) = Ended(Append(<<>>, Found(Append(at[n].line, "close"))))
  <2>1. Takes(at[n], at[n + 1], w[n + 1]) \/ Completes(at[n], at[n + 1], w[n + 1])
    BY <1>6, <1>9, n \in 0 .. n
  <2>2. ~at[n].instr /\ at[n].depth = 1 /\ at[n].got = <<>>
    <3>1. at[n].instr = (Inside(w)[n] # "out") /\ at[n].got = <<>>
      BY <1>9
    <3>2. at[n].depth = 1
      <4>1. at[n].depth = (IF n = 0 THEN 0 ELSE 1)
        BY <1>9
      <4>2. n # 0
        BY <1>1
      <4> QED
        BY <4>1, <4>2
    <3> QED
      BY <1>5, <3>1, <3>2
  <2>3. ~Takes(at[n], at[n + 1], w[n + 1])
    BY <1>5, <2>2 DEF Takes
  <2> QED
    BY <1>3, <1>5, <2>1, <2>2, <2>3 DEF Completes
<1> QED
  BY <1>10, KeptEnded


-----------------------------------------------------------------------------
(* Plain frames, behind whatever one cut left.                             *)

\* No verb of an earlier frame can be run: it would take one more brace.
Clear(f) ==
    /\ ~f.escape /\ f.instr = Odd(f.line)
    /\ Bare(f.line, "old") => f.depth >= 1
    /\ ~Bare(f.line, "r")

LEMMA PlainInside ==
    ASSUME NEW w \in Shapes, Plain(w)
    PROVE  \A i \in 1 .. Len(w) :
             /\ w[i] # "b" /\ (w[i] = "close" <=> i = Len(w))
             /\ Inside(w)[i] # "out" <=> IF w[i] = "q" THEN Inside(w)[i - 1] = "out"
                                                       ELSE Inside(w)[i - 1] # "out"
<1>1. PICK n \in Nat : n = Len(w) /\ n > 1
  BY RequestIs
<1>2. \A i \in 1 .. n : w[i] # "b" /\ (w[i] = "close" <=> i = n)
  <2>1. \A i \in 1 .. n : i = n \/ i \in 1 .. n - 1
    BY <1>1
  <2>2. w[n] = "close" /\ \A i \in 1 .. n - 1 : w[i] # "b" /\ w[i] # "close" /\ i # n
    BY <1>1, RequestIs DEF Plain
  <2> QED
    BY <2>1, <2>2
<1> DEFINE Good == {i \in 0 .. n : Inside(w)[i] \in {"out", "in"}}
<1>3. \A i \in 1 .. n : Inside(w)[i] = Place(Inside(w)[i - 1], w[i])
  BY <1>1, RequestIs
<1>4. \A i \in 0 .. n : i \in Good
  <2>1. 0 \in Good
    BY <1>1, RequestIs
  <2>2. \A i \in 1 .. n : i - 1 \in Good => i \in Good
    BY <1>2, <1>3 DEF Place
  <2> HIDE DEF Good
  <2> QED
    BY <2>1, <2>2, AllUpTo
<1>5. \A i \in 1 .. n : Inside(w)[i - 1] \in {"out", "in"}
  <2>1. \A i \in 1 .. n : i - 1 \in 0 .. n
    OBVIOUS
  <2> QED
    BY <1>4, <2>1
<1>6. \A i \in 1 .. n :
        Inside(w)[i] # "out" <=> IF w[i] = "q" THEN Inside(w)[i - 1] = "out"
                                               ELSE Inside(w)[i - 1] # "out"
  BY <1>2, <1>3, <1>5 DEF Place
<1> QED
  BY <1>1, <1>2, <1>6

LEMMA EmptyClear ==
    ASSUME NEW s, s.line = <<>>
    PROVE  ~Bare(s.line, "old") /\ ~Bare(s.line, "r") /\ Odd(s.line) = FALSE
<1>1. Quoted(<<>>, 0) = 0 /\ Len(<<>>) = 0
  BY QuotedNext
<1>2. Odd(s.line) = FALSE
  BY <1>1 DEF Odd
<1> QED
  BY <1>2, BareEmpty

\* The first k bytes of a plain frame, behind a frame that is clear.
Aligned(s, w, i) == s.instr = (Inside(w)[i] # "out")

Guarded(s, w, i) ==
    /\ ~s.escape /\ s.instr = Odd(s.line)
    /\ Bare(s.line, "old") =>
         s.depth >= 1 /\ (i >= 1 /\ i < Len(w) /\ Aligned(s, w, i) => s.depth >= 2)
    /\ Bare(s.line, "r") =>
         /\ i >= 3 /\ Len(s.line) >= i - 1
         /\ i < Len(w) => Aligned(s, w, i)
         /\ i = Len(w) => s.depth >= 1
    /\ \A j \in 1 .. Len(s.got) : s.got[j] # "old"

\* Of a framer that was at rest before it: what it keeps is all or, once the
\* line has overrun, it lacks the beginning.
FromRest(s, w, i) ==
    \/ s.line = <<>> /\ i # 1
    \/ LineCap = 1
    \/ Len(s.line) = i /\ (i >= 1 /\ i < Len(w) => s.depth >= 1)
    \/ Len(s.line) <= i - 2

LEMMA PlainByte ==
    ASSUME NEW w \in Shapes, Plain(w), NEW i \in 1 .. Len(w),
           NEW s, Well(s), NEW t, t = FeedByte(s, w[i]), Guarded(s, w, i - 1)
    PROVE  Guarded(t, w, i)
<1>1. PICK n \in Nat, c \in Token : n = Len(w) /\ n > 1 /\ c = w[i] /\ i \in 1 .. n /\ i \in Nat
  BY RequestIs
<1>2. Outcome(s, t, c) /\ s \in States /\ c \in Tok /\ c # "old"
  BY <1>1, ByteIs DEF Well, Tok, Token
<1>3. /\ c # "b" /\ (c = "close" <=> i = n)
      /\ Inside(w)[i] # "out" <=> IF c = "q" THEN Inside(w)[i - 1] = "out"
                                             ELSE Inside(w)[i - 1] # "out"
  BY <1>1, PlainInside
<1>4. /\ Inside(w)[n - 1] = "out" /\ Inside(w)[0] = "out"
      /\ c = "r" => i = 3 /\ w[2] = "q"
      /\ i = 1 => c = "open"
  <2>1. i = 1 => Inside(w)[i - 1] = "out"
    BY <1>1, RequestIs
  <2> QED
    BY <1>1, <2>1, RequestIs
<1>5. /\ s.line \in Seq(Tok) /\ s.depth \in Nat /\ s.instr \in BOOLEAN
      /\ s.got \in Seq(Tok \cup {"none"})
  BY <1>2 DEF States
<1>6. CASE Skips(s, t, c)
  <2>1. t = s /\ s.line = <<>>
    BY <1>6 DEF Skips
  <2> QED
    BY <2>1, BareEmpty DEF Guarded
<1>7. CASE Drops(s, t)
  <2>1. t.line = <<>> /\ ~t.escape /\ t.instr = FALSE /\ t.got = s.got
    BY <1>7 DEF Drops, Ended
  <2> QED
    BY <2>1, EmptyClear DEF Guarded
\* The last brace: no verb of an earlier frame stands in the line it ends.
<1>8. CASE Completes(s, t, c)
  <2> DEFINE l == Append(s.line, c)
  <2>1. /\ t.line = <<>> /\ ~t.escape /\ t.instr = FALSE /\ t.got = Append(s.got, Found(l))
        /\ c = "close" /\ s.depth <= 1 /\ ~s.instr
    BY <1>8 DEF Completes, Ended
  <2>3. Found(l) # "old"
    <3> SUFFICES ASSUME Found(l) = "old" PROVE FALSE
      OBVIOUS
    <3>1. l \in Seq(Tok)
      BY <1>2, <1>5
    <3>2. Bare(l, "old")
      <4> HIDE DEF l
      <4> QED
        BY <3>1, FoundIs
    <3>3. Bare(s.line, "old")
      BY <1>2, <1>5, <3>2, BareAppend
    <3>4. Aligned(s, w, i - 1)
      BY <1>1, <1>3, <1>4, <2>1, <1>5 DEF Aligned
    <3>5. i = n /\ i - 1 >= 1 /\ i - 1 < Len(w)
      BY <1>1, <1>3, <2>1
    <3>6. s.depth >= 2
      BY <3>3, <3>4, <3>5 DEF Guarded
    <3> QED
      BY <1>5, <2>1, <3>6
  <2> HIDE DEF l
  <2>4. \A j \in 1 .. Len(t.got) : t.got[j] # "old"
    <3>1. Len(t.got) = Len(s.got) + 1
      BY <1>5, <2>1
    <3>2. \A j \in 1 .. Len(s.got) + 1 :
            t.got[j] = IF j = Len(s.got) + 1 THEN Found(l) ELSE s.got[j]
      BY <1>5, <2>1
    <3>3. \A j \in 1 .. Len(s.got) + 1 : j = Len(s.got) + 1 \/ j \in 1 .. Len(s.got)
      BY <1>5
    <3> QED
      BY <2>3, <3>1, <3>2, <3>3 DEF Guarded
  <2> QED
    BY <2>1, <2>4, EmptyClear DEF Guarded
<1>9. CASE Takes(s, t, c)
  <2>1. /\ t.line = Append(s.line, c) /\ t.got = s.got /\ t \in States
        /\ ~s.escape /\ s.instr = Odd(s.line)
    BY <1>9 DEF Takes, Guarded
  <2>2. t.depth \in Nat /\ Len(t.line) = Len(s.line) + 1 /\ Len(s.line) \in Nat
    BY <1>2, <1>5, <2>1 DEF States
  <2>3. Odd(t.line) <=> IF c = "q" THEN ~Odd(s.line) ELSE Odd(s.line)
    BY <1>2, <1>5, <2>1, OddAppend
  <2>4. ~t.escape /\ t.instr \in BOOLEAN /\ (t.instr <=> IF c = "q" THEN ~s.instr ELSE s.instr)
    BY <1>3, <1>5, <1>9, <2>1 DEF Takes, States
  <2>5. t.instr = Odd(t.line)
    BY <1>5, <2>1, <2>3, <2>4 DEF Odd
  <2>6. /\ c # "close" => t.depth >= s.depth
        /\ c = "close" => t.depth >= 1 \/ (s.instr /\ t.depth = s.depth)
        /\ c = "close" /\ ~s.instr => t.depth >= 1
        /\ c = "open" /\ ~s.instr => t.depth = s.depth + 1
    BY <1>5, <1>9, <2>2 DEF Takes
  \* Both read on from what they agree about.
  <2>7. Aligned(t, w, i) <=> Aligned(s, w, i - 1)
    BY <1>3, <1>5, <2>4 DEF Aligned
  <2>8. ASSUME Bare(t.line, "old")
        PROVE  t.depth >= 1 /\ (i >= 1 /\ i < n /\ Aligned(t, w, i) => t.depth >= 2)
    <3>1. Bare(s.line, "old")
      BY <1>2, <1>5, <2>1, <2>8, BareAppend
    <3>2. s.depth >= 1
      BY <3>1 DEF Guarded
    <3>3. t.depth >= 1
      BY <1>5, <2>2, <2>6, <3>2
    <3>4. ASSUME i < n, Aligned(t, w, i) PROVE t.depth >= 2
      <4>1. c # "close" /\ Aligned(s, w, i - 1)
        BY <1>1, <1>3, <2>7, <3>4
      <4>2. CASE i = 1
        <5>1. ~s.instr /\ c = "open"
          BY <1>4, <1>5, <4>1, <4>2, 1 - 1 = 0 DEF Aligned
        <5> QED
          BY <1>5, <2>2, <2>6, <3>2, <5>1
      <4>3. CASE i # 1
        <5>1. i - 1 >= 1 /\ i - 1 < Len(w)
          BY <1>1, <3>4, <4>3
        <5>2. s.depth >= 2
          BY <3>1, <4>1, <5>1 DEF Guarded
        <5> QED
          BY <1>5, <2>2, <2>6, <4>1, <5>2
      <4> QED
        BY <4>2, <4>3
    <3> QED
      BY <3>3, <3>4
  <2>9. ASSUME Bare(t.line, "r")
        PROVE  /\ i >= 3 /\ Len(t.line) >= i - 1
               /\ i < n => Aligned(t, w, i)
               /\ i = n => t.depth >= 1
    <3>1. Bare(s.line, "r") \/ (c = "r" /\ s.line # <<>> /\ Odd(s.line))
      BY <1>2, <1>5, <2>1, <2>9, BareAppend
    <3>2. CASE Bare(s.line, "r")
      <4>1. i - 1 >= 3 /\ Len(s.line) >= (i - 1) - 1 /\ (i - 1 < Len(w) => Aligned(s, w, i - 1))
        BY <3>2 DEF Guarded
      <4>2. i >= 3 /\ Len(t.line) >= i - 1 /\ Aligned(s, w, i - 1)
        BY <1>1, <2>2, <4>1
      <4>3. i = n => t.depth >= 1
        <5> SUFFICES ASSUME i = n PROVE t.depth >= 1
          OBVIOUS
        <5>1. ~s.instr /\ c = "close"
          BY <1>3, <1>4, <1>5, <4>2 DEF Aligned
        <5> QED
          BY <2>6, <5>1
      <4> QED
        BY <2>7, <4>2, <4>3
    \* The verb of this frame, behind the quote that opens it.
    <3>3. CASE c = "r" /\ s.line # <<>> /\ Odd(s.line)
      <4>1. i = 3 /\ w[2] = "q" /\ i # n
        BY <1>3, <1>4, <3>3
      <4>2. n > 3 /\ Len(w) > 3 /\ 1 \in 1 .. Len(w) /\ 2 \in 1 .. Len(w)
        BY <1>1, <4>1
      <4>3. Inside(w)[1] = "out"
        <5>1. w[1] = "open"
          <6>1. Inside(w)[1 - 1] = "out"
            BY <1>4, 1 - 1 = 0
          <6> QED
            BY <4>2, <6>1, RequestIs
        <5> QED
          BY <1>4, <4>2, <5>1, PlainInside, 1 - 1 = 0
      <4>4. Inside(w)[2] # "out"
        BY <4>1, <4>2, <4>3, PlainInside, 2 - 1 = 1
      <4>5. Aligned(s, w, i - 1)
        BY <1>5, <2>1, <3>3, <4>1, <4>4, 3 - 1 = 2 DEF Aligned
      <4>6. Len(s.line) > 0
        BY <1>5, <3>3
      <4> QED
        BY <1>1, <2>2, <2>7, <4>1, <4>5, <4>6
    <3> QED
      BY <3>1, <3>2, <3>3
  <2>10. \A j \in 1 .. Len(t.got) : t.got[j] # "old"
    BY <2>1 DEF Guarded
  <2> QED
    BY <1>1, <2>4, <2>5, <2>8, <2>9, <2>10 DEF Guarded
<1> QED
  BY <1>2, <1>6, <1>7, <1>8, <1>9 DEF Outcome


LEMMA RestByte ==
    ASSUME NEW w \in Shapes, Plain(w), NEW i \in 1 .. Len(w),
           NEW s, Well(s), NEW t, t = FeedByte(s, w[i]), FromRest(s, w, i - 1)
    PROVE  FromRest(t, w, i)
<1>1. PICK n \in Nat, c \in Token : n = Len(w) /\ n > 1 /\ c = w[i] /\ i \in 1 .. n /\ i \in Nat
  BY RequestIs
<1>2. Outcome(s, t, c) /\ s \in States /\ c \in Tok
  BY <1>1, ByteIs DEF Well, Tok
<1>3. (c = "close" => i = n) /\ (i = 1 => c = "open")
  <2>1. i = 1 => Inside(w)[i - 1] = "out"
    BY <1>1, RequestIs
  <2> QED
    BY <1>1, <2>1, PlainInside, RequestIs
<1>5. s.line \in Seq(Tok) /\ s.depth \in Nat /\ Len(s.line) \in Nat /\ LineCap \in Nat
  BY <1>2, ConfigAssumption DEF States
<1>6. CASE Skips(s, t, c)
  BY <1>3, <1>6 DEF Skips, FromRest
<1>7. CASE Drops(s, t)
  <2>1. t.line = <<>>
    BY <1>7 DEF Drops, Ended
  <2>2. i = 1 => LineCap = 1
    <3> SUFFICES ASSUME i = 1 PROVE LineCap = 1
      OBVIOUS
    <3>1. FromRest(s, w, 0) /\ Len(s.line) >= LineCap - 1
      BY <1>7, 1 - 1 = 0 DEF Drops, Full
    <3>2. LineCap = 1 \/ Len(s.line) <= 0
      BY <1>5, <3>1 DEF FromRest
    <3> QED
      BY <1>5, <3>1, <3>2, ConfigAssumption
  <2> QED
    BY <2>1, <2>2 DEF FromRest
<1>8. CASE Completes(s, t, c)
  <2>1. t.line = <<>> /\ i # 1
    BY <1>1, <1>3, <1>8 DEF Completes, Ended
  <2> QED
    BY <2>1 DEF FromRest
<1>9. CASE Takes(s, t, c)
  <2>1. Len(t.line) = Len(s.line) + 1 /\ t.depth \in Nat
    BY <1>2, <1>5, <1>9 DEF Takes, States
  <2>2. c # "close" => t.depth >= s.depth
    BY <1>5, <1>9, <2>1 DEF Takes
  <2>3. CASE i = 1 /\ Len(s.line) <= 0
    <3>1. s.line = <<>>
      BY <1>5, <2>3
    <3>2. ~s.instr /\ c = "open" /\ s.depth = 0
      BY <1>3, <2>3, <3>1 DEF Well
    <3>3. t.depth >= 1 /\ Len(t.line) = 1
      BY <1>5, <1>9, <2>1, <2>3, <3>1, <3>2 DEF Takes
    <3> QED
      BY <2>3, <3>3 DEF FromRest
  <2>4. CASE i > 1 /\ s.line = <<>> /\ i - 1 # 1
    <3>1. Len(t.line) = 1 /\ 1 <= i - 2
      BY <1>1, <2>1, <2>4
    <3> QED
      BY <3>1 DEF FromRest
  <2>5. CASE i > 1 /\ Len(s.line) = i - 1 /\ (i - 1 >= 1 /\ i - 1 < Len(w) => s.depth >= 1)
    <3>1. Len(t.line) = i
      BY <1>1, <2>1, <2>5
    <3>2. i < n => t.depth >= 1
      <4> SUFFICES ASSUME i < n PROVE t.depth >= 1
        OBVIOUS
      <4>1. c # "close" /\ s.depth >= 1
        BY <1>1, <1>3, <2>5
      <4> QED
        BY <1>5, <2>1, <2>2, <4>1
    <3> QED
      BY <1>1, <3>1, <3>2 DEF FromRest
  <2>6. CASE i > 1 /\ Len(s.line) <= (i - 1) - 2
    <3>1. Len(t.line) <= i - 2
      BY <1>1, <1>5, <2>1, <2>6
    <3> QED
      BY <3>1 DEF FromRest
  <2>7. CASE LineCap = 1
    BY <2>7 DEF FromRest
  <2>8. FromRest(s, w, i - 1) /\ (i = 1 \/ i > 1)
    BY <1>1
  <2>9. i = 1 => LineCap = 1 \/ Len(s.line) <= 0
    BY <1>5, <2>8 DEF FromRest
  <2> QED
    BY <2>3, <2>4, <2>5, <2>6, <2>7, <2>8, <2>9 DEF FromRest
<1> QED
  BY <1>2, <1>6, <1>7, <1>8, <1>9 DEF Outcome

\* What a plain frame leaves, whole behind anything clear or cut behind rest.
LEMMA PlainClear ==
    ASSUME WellFramed, Clear(frame), NEW w \in Shapes, Plain(w),
           NEW k \in 1 .. Len(w), k = Len(w) \/ frame = Rest,
           NEW b \in Seq(Token), Len(b) = k, \A i \in 1 .. k : b[i] = w[i]
    PROVE  /\ Clear(Kept(Fed(b)))
           /\ \A j \in 1 .. Len(Fed(b).got) : Fed(b).got[j] # "old"
<1>1. PICK n \in Nat : n = Len(w) /\ k \in 1 .. n /\ k \in Nat
  BY RequestIs
<1>2. PICK at : Feeds(at, b)
  BY FedRuns
<1>3. /\ at[0] = Polled /\ Fed(b) = at[k]
      /\ \A i \in 0 .. k : Well(at[i])
      /\ \A i \in 1 .. k : at[i] = FeedByte(at[i - 1], w[i])
  BY <1>2 DEF Feeds
<1>4. \A i \in 1 .. k : i \in 1 .. Len(w) /\ i - 1 \in 0 .. k
  BY <1>1
<1> DEFINE G == {i \in 0 .. k : Guarded(at[i], w, i)}
           R == {i \in 0 .. k : FromRest(at[i], w, i)}
<1>5. \A i \in 0 .. k : i \in G
  <2>1. 0 \in G
    <3>1. Guarded(Polled, w, 0)
      BY DEF Guarded, Clear, Polled
    <3> QED
      BY <1>3, <3>1
  <2>2. ASSUME NEW i \in 1 .. k, i - 1 \in G PROVE i \in G
    BY <1>3, <1>4, <2>2, PlainByte
  <2> HIDE DEF G
  <2> QED
    BY <1>1, <2>1, <2>2, AllUpTo
<1>6. frame = Rest => \A i \in 0 .. k : i \in R
  <2> SUFFICES ASSUME frame = Rest PROVE \A i \in 0 .. k : i \in R
    OBVIOUS
  <2>1. 0 \in R
    <3>1. FromRest(Polled, w, 0)
      BY DEF FromRest, Polled, Rest
    <3> QED
      BY <1>3, <3>1
  <2>2. ASSUME NEW i \in 1 .. k, i - 1 \in R PROVE i \in R
    BY <1>3, <1>4, <2>2, RestByte
  <2> HIDE DEF R
  <2> QED
    BY <1>1, <2>1, <2>2, AllUpTo
<1>7. PICK s, f : s = Fed(b) /\ f = Kept(s)
  OBVIOUS
<1>8. Guarded(s, w, k) /\ (frame = Rest => FromRest(s, w, k)) /\ Well(s) /\ s \in States
  BY <1>1, <1>3, <1>5, <1>6, <1>7 DEF Well
<1>9. Bare(s.line, "r") => s.depth >= 1
  <2> SUFFICES ASSUME Bare(s.line, "r") PROVE s.depth >= 1
    OBVIOUS
  <2>1. k >= 3 /\ Len(s.line) >= k - 1 /\ (k = Len(w) => s.depth >= 1)
    BY <1>8 DEF Guarded
  <2>2. CASE k # Len(w)
    <3>1. FromRest(s, w, k) /\ k < Len(w)
      BY <1>1, <1>8, <2>2
    <3>2. s.line \in Seq(Tok) /\ Len(s.line) \in Nat /\ Len(s.line) < LineCap
      BY <1>8 DEF Well, States
    <3>3. s.line # <<>> /\ LineCap # 1 /\ ~(Len(s.line) <= k - 2)
      BY <1>1, <2>1, <3>2
    <3> QED
      BY <1>1, <2>1, <3>1, <3>3 DEF FromRest
  <2> QED
    BY <2>1, <2>2
<1>10. /\ f \in Frames /\ Len(f.line) = Len(s.line)
       /\ f.depth = s.depth /\ f.instr = s.instr /\ f.escape = s.escape
       /\ \A i \in 1 .. Len(s.line) :
            f.line[i] = IF s.line[i] = "r" THEN "old" ELSE s.line[i]
  BY <1>7, <1>8, KeptIs
<1>11. PICK m \in Nat : /\ m = Len(s.line) /\ m = Len(f.line)
                        /\ DOMAIN s.line = 1 .. m /\ DOMAIN f.line = 1 .. m
  <2>1. s.line \in Seq(Tok) /\ f.line \in Seq(Tok)
    BY <1>8, <1>10 DEF States, Frames
  <2> QED
    BY <1>10, <2>1
<1>12. \A i \in 1 .. m : s.line[i] = "q" <=> f.line[i] = "q"
  BY <1>10, <1>11
<1>13. Odd(f.line) = Odd(s.line)
  <2>1. Quoted(s.line, m) = Quoted(f.line, m)
    BY <1>12, QuotedSame
  <2> QED
    BY <1>11, <2>1 DEF Odd
<1>14. Opening(f.line) = Opening(s.line)
  <2>1. \A i \in 1 .. m : Quoted(f.line, i - 1) = Quoted(s.line, i - 1)
    <3> SUFFICES ASSUME NEW i \in 1 .. m PROVE Quoted(f.line, i - 1) = Quoted(s.line, i - 1)
      OBVIOUS
    <3>1. i - 1 \in Nat /\ \A j \in 1 .. i - 1 : j \in 1 .. m
      OBVIOUS
    <3> QED
      BY <1>12, <3>1, QuotedSame
  <2>2. /\ Opening(f.line) = {i \in 1 .. m : f.line[i] = "q" /\ Quoted(f.line, i - 1) % 2 = 0}
        /\ Opening(s.line) = {i \in 1 .. m : s.line[i] = "q" /\ Quoted(s.line, i - 1) % 2 = 0}
    BY <1>11 DEF Opening, Quoted
  <2> QED
    BY <1>12, <2>1, <2>2
<1>15. /\ Bare(f.line, "old") => Bare(s.line, "old") \/ Bare(s.line, "r")
       /\ ~Bare(f.line, "r")
  <2>1. \A i \in Opening(f.line) : i < m => i + 1 \in 1 .. m
    BY <1>11 DEF Opening
  <2> QED
    BY <1>10, <1>11, <1>14, <2>1 DEF Bare
<1>16. Bare(f.line, "old") => f.depth >= 1
  BY <1>8, <1>9, <1>10, <1>15 DEF Guarded
<1>17. ~f.escape /\ f.instr = Odd(f.line)
  <2>1. ~s.escape /\ s.instr = Odd(s.line)
    BY <1>8 DEF Guarded
  <2> QED
    BY <1>10, <1>13, <2>1
<1>18. \A j \in 1 .. Len(s.got) : s.got[j] # "old"
  BY <1>8 DEF Guarded
<1> QED
  BY <1>7, <1>15, <1>16, <1>17, <1>18 DEF Clear


-----------------------------------------------------------------------------
(* The framer in the steps of the channel.                                 *)

FrameInv ==
    /\ WellFramed /\ cuts \in Nat /\ (cuts = 0 => frame = Rest)
    /\ reply.ask = "flush" => frame = Rest
    /\ ("quoting" \notin may /\ cuts <= 1) => Clear(frame) /\ reply.ask # "old"

LEMMA RestClear == Clear(Rest)
<1>1. Rest.line = <<>> /\ Rest.instr = FALSE /\ Rest.escape = FALSE
  BY DEF Rest
<1> QED
  BY <1>1, EmptyClear DEF Clear

LEMMA HandleAsks == ASSUME NEW r, Handle(r) PROVE reply'.ask = r.t
<1> USE DEF Replies
<1>1. CASE Refused(r)
  BY <1>1 DEF Refused
<1>2. CASE Query(r) \/ Monset(r) \/ Led(r)
  BY <1>2 DEF Query, Monset, Led
<1>3. CASE Setting(r)
  BY <1>3 DEF Setting
<1>4. CASE StoreVerb(r)
  BY <1>4 DEF StoreVerb
<1> QED
  BY <1>1, <1>2, <1>3, <1>4 DEF Handle

LEMMA ReceiveFrames ==
    ASSUME WellFramed, NEW bytes \in Seq(Token), Receive(bytes)
    PROVE  /\ WellFramed' /\ frame' = Kept(Fed(bytes)) /\ may' = may
           /\ reply'.ask # "flush"
           /\ (\A j \in 1 .. Len(Fed(bytes).got) : Fed(bytes).got[j] # "old")
                => reply'.ask # "old"
<1>1. PICK s : s = Fed(bytes)
  OBVIOUS
<1>2. Well(s) /\ s \in States /\ s.got \in Seq(Tok \cup {"none"})
  BY <1>1, FedWell DEF Well, States
<1>3. /\ frame' = Kept(s) /\ may' = may
      /\ \/ s.got = <<"r">> /\ \E r \in Requests : Handle(r)
         \/ s.got = <<>> /\ reply' = NoReply
         \/ s.got # <<>> /\ Handle(Garbled(s.got[1]))
  BY <1>1 DEF Receive
<1>4. WellFramed'
  BY <1>2, <1>3, KeptWell DEF WellFramed, Polled, Well
<1>5. CASE s.got = <<"r">> /\ \E r \in Requests : Handle(r)
  <2>1. reply'.ask \notin {"old", "flush"}
    BY <1>5, HandleAsks, ConfigAssumption
  <2> QED
    BY <1>1, <1>3, <1>4, <2>1
<1>6. CASE s.got = <<>> /\ reply' = NoReply
  BY <1>1, <1>3, <1>4, <1>6 DEF NoReply
<1>7. CASE s.got # <<>> /\ Handle(Garbled(s.got[1]))
  <2>1. reply'.ask = s.got[1]
    BY <1>7, HandleAsks DEF Garbled
  <2>2. 1 \in 1 .. Len(s.got) /\ s.got[1] \in Tok \cup {"none"}
    BY <1>2, <1>7
  <2>3. "flush" \notin Tok \cup {"none"}
    BY DEF Tok, Token
  <2> QED
    BY <1>1, <1>3, <1>4, <2>1, <2>2, <2>3
<1> QED
  BY <1>3, <1>5, <1>6, <1>7

LEMMA InitFrame == CInit => FrameInv
<1> SUFFICES ASSUME CInit PROVE FrameInv
  OBVIOUS
<1>1. frame = Rest /\ cuts = 0 /\ reply.ask = "none"
  BY DEF CInit, NoReply
<1> QED
  BY <1>1, RestWell, RestClear DEF FrameInv

LEMMA WholeFrame == ASSUME FrameInv, Whole PROVE FrameInv'
<1>1. PICK w \in Shapes :
        /\ Plain(w) \/ "quoting" \in may
        /\ Len(w) < LineCap /\ Receive(w) /\ cuts' = cuts
  BY DEF Whole, Sent
<1>2. PICK n \in Nat : n = Len(w) /\ n > 1 /\ w \in Seq(Token)
  BY RequestIs
<1>3. /\ WellFramed' /\ frame' = Kept(Fed(w)) /\ may' = may /\ reply'.ask # "flush"
      /\ (\A j \in 1 .. Len(Fed(w).got) : Fed(w).got[j] # "old") => reply'.ask # "old"
  BY <1>1, <1>2, ReceiveFrames DEF FrameInv
<1>4. cuts' = 0 => frame' = Rest
  BY <1>1, <1>3, WholeRests DEF FrameInv
<1>5. ASSUME "quoting" \notin may', cuts' <= 1 PROVE Clear(frame') /\ reply'.ask # "old"
  <2>1. Plain(w) /\ Clear(frame)
    BY <1>1, <1>3, <1>5 DEF FrameInv
  <2>2. /\ Clear(Kept(Fed(w)))
        /\ \A j \in 1 .. Len(Fed(w).got) : Fed(w).got[j] # "old"
    BY <1>2, <2>1, n \in 1 .. n, PlainClear DEF FrameInv
  <2> QED
    BY <1>3, <2>2
<1>6. (("quoting" \notin may /\ cuts <= 1) => Clear(frame) /\ reply.ask # "old")'
  BY <1>5 DEF Clear, Odd, Quoted, Bare, Opening
<1> QED
  BY <1>1, <1>3, <1>4, <1>6 DEF FrameInv

LEMMA BrokenFrame == ASSUME FrameInv, Broken PROVE FrameInv'
<1>1. PICK w \in Shapes :
        /\ Plain(w) \/ "quoting" \in may
        /\ \/ Len(w) >= LineCap /\ Receive(w)
           \/ \E k \in 1 .. Len(w) - 1 : Receive(SubSeq(w, 1, k))
        /\ cuts' = cuts + 1
  BY DEF Broken, Sent
<1>2. PICK n \in Nat : n = Len(w) /\ n > 1 /\ w \in Seq(Token)
  BY RequestIs
<1>3. PICK k \in 1 .. n, b \in Seq(Token) :
        Len(b) = k /\ (\A i \in 1 .. k : b[i] = w[i]) /\ Receive(b)
  <2>1. CASE Len(w) >= LineCap /\ Receive(w)
    BY <1>2, <2>1, n \in 1 .. n
  <2>2. ASSUME NEW k \in 1 .. n - 1, Receive(SubSeq(w, 1, k))
        PROVE  \E j \in 1 .. n, b \in Seq(Token) :
                 Len(b) = j /\ (\A i \in 1 .. j : b[i] = w[i]) /\ Receive(b)
    <3>1. /\ SubSeq(w, 1, k) \in Seq(Token) /\ Len(SubSeq(w, 1, k)) = k
          /\ \A i \in 1 .. k : SubSeq(w, 1, k)[i] = w[i]
      BY <1>2
    <3> QED
      BY <1>2, <2>2, <3>1, k \in 1 .. n
  <2> QED
    BY <1>1, <1>2, <2>1, <2>2
<1>4. /\ WellFramed' /\ frame' = Kept(Fed(b)) /\ may' = may /\ reply'.ask # "flush"
      /\ (\A j \in 1 .. Len(Fed(b).got) : Fed(b).got[j] # "old") => reply'.ask # "old"
  BY <1>3, ReceiveFrames DEF FrameInv
<1>5. cuts' \in Nat /\ cuts' # 0
  BY <1>1 DEF FrameInv
<1>6. ASSUME "quoting" \notin may', cuts' <= 1 PROVE Clear(frame') /\ reply'.ask # "old"
  <2>1. cuts = 0
    BY <1>1, <1>6 DEF FrameInv
  <2>2. Plain(w) /\ frame = Rest /\ Clear(frame)
    BY <1>1, <1>4, <1>6, <2>1 DEF FrameInv
  <2>3. /\ Clear(Kept(Fed(b)))
        /\ \A j \in 1 .. Len(Fed(b).got) : Fed(b).got[j] # "old"
    BY <1>2, <1>3, <2>2, PlainClear DEF FrameInv
  <2> QED
    BY <1>4, <2>3
<1>7. (("quoting" \notin may /\ cuts <= 1) => Clear(frame) /\ reply.ask # "old")'
  BY <1>6 DEF Clear, Odd, Quoted, Bare, Opening
<1> QED
  BY <1>4, <1>5, <1>7 DEF FrameInv

\* Nothing else moves the framer, but a flush and a power cut, which rest it.
LEMMA OtherFrames ==
    ASSUME FrameInv, [CNext]_cvars, ~Whole, ~Broken
    PROVE  /\ may' = may /\ cuts' = cuts
           /\ \/ frame' = frame /\ (reply' = reply \/ reply' = NoReply)
              \/ frame' = Rest /\ reply'.ask \in {"flush", "none"}
<1>1. CASE Flush
  BY <1>1, FlushRests DEF Flush, FrameInv, NoReply
<1>2. CASE PowerCut
  BY <1>2 DEF PowerCut, NoReply
<1>3. CASE Port
  BY <1>3 DEF Port
<1>4. CASE \E w \in Within : StepProfile(w) \/ SwitchProfile(w)
  BY <1>4 DEF StepProfile, SwitchProfile, Hands
<1>5. CASE (\E m \in Modes : FlipMode(m)) \/ \E v \in Valid[Bpm] : Touch(v)
  BY <1>5 DEF FlipMode, Touch, Hands
<1>6. CASE Brighten \/ Tick \/ Save \/ Boot
  BY <1>6 DEF Brighten, Tick, Save, Boot, Hands
<1>7. CASE UNCHANGED cvars
  BY <1>7 DEF cvars
<1> QED
  BY <1>1, <1>2, <1>3, <1>4, <1>5, <1>6, <1>7 DEF CNext

LEMMA StepFrame == FrameInv /\ [CNext]_cvars => FrameInv'
<1> SUFFICES ASSUME FrameInv, [CNext]_cvars, ~Whole, ~Broken PROVE FrameInv'
  BY WholeFrame, BrokenFrame
<1>1. may' = may /\ cuts' = cuts
  BY OtherFrames
<1>2. CASE frame' = frame /\ (reply' = reply \/ reply' = NoReply)
  <2>1. NoReply.ask = "none"
    BY DEF NoReply
  <2> QED
    BY <1>1, <1>2, <2>1 DEF FrameInv, WellFramed, Well, Polled, Clear, Odd, Quoted, Bare, Opening
<1>3. CASE frame' = Rest /\ reply'.ask \in {"flush", "none"}
  <2>1. WellFramed'
    <3>1. (frame = Rest => WellFramed)'
      BY RestWell, PTL
    <3> QED
      BY <1>3, <3>1 DEF Rest
  <2>2. Clear(frame)'
    <3>1. Clear(frame')
      BY <1>3, RestClear
    <3> QED
      BY <3>1 DEF Clear, Odd, Quoted, Bare, Opening
  <2>3. (frame = Rest)' /\ (reply.ask # "old")' /\ cuts' \in Nat
    BY <1>1, <1>3 DEF Rest, FrameInv
  <2> QED
    BY <2>1, <2>2, <2>3 DEF FrameInv
<1> QED
  BY <1>2, <1>3, OtherFrames

LEMMA AlwaysFramed == CSpec => []FrameInv
BY InitFrame, StepFrame, PTL DEF CSpec

\* For every length of a line and all frames a host may send: as long as hosts
\* finish what they send, the framer is at rest between frames, and its line
\* never overruns.
THEOREM RestsWhenClean == CSpec => []CleanIsAtRest
<1>1. FrameInv => CleanIsAtRest
  BY DEF FrameInv, CleanIsAtRest, WellFramed, Well, Polled
<1> QED
  BY AlwaysFramed, <1>1, PTL

\* From wherever cut, overlong and quoting frames left it, a line of white space
\* brings it to rest.
THEOREM FlushBringsRest == CSpec => []FlushRecovers
<1>1. FrameInv => FlushRecovers
  BY DEF FrameInv, FlushRecovers
<1> QED
  BY AlwaysFramed, <1>1, PTL

\* After one cut, wherever it fell, and however many frames follow, the verb of
\* the cut frame is never run.
THEOREM OneFrame == CSpec => []OneFrameOneRequest
<1>1. FrameInv => OneFrameOneRequest
  BY DEF FrameInv, OneFrameOneRequest
<1> QED
  BY AlwaysFramed, <1>1, PTL
=============================================================================
