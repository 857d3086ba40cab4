--------------------------- MODULE WebPages_proofs ---------------------------
(***************************************************************************)
(* What holds of two pages of the web interface, which share no state.     *)
(* The settings, for any number of keys, saves, sources and restarts: the  *)
(* banner tells the truth but for the recorded exceptions, and a save      *)
(* stores nothing that was not asked for.                                  *)
(* The chat, for any number of asks, tabs and pages of notes: the turns of *)
(* an answered ask are stored, its prompt is the conversation before its   *)
(* question, and it cites what is there.                                   *)
(***************************************************************************)
EXTENDS Config, Chat, FiniteSetTheorems, TLAPS

-----------------------------------------------------------------------------
(* The settings.                                                           *)


(* What a save that has not been compared yet would store, for a key that it
   was not asked for and nobody has written, is what the process reads. *)
BaseIsFresh ==
    \A s \in saves : s.stage = "load" =>
        \A k \in Keys : k \in s.named \cup s.stale \/ s.new[k] = Load(db, env)[k]

(* The pair of a login is all that it writes. *)
LoginsAreNamed == \A s \in saves : s.stage = "login" => s.diff \subseteq s.named

IInv == TypeOK /\ BaseIsFresh /\ LoginsAreNamed /\ RestartIsReported /\ SavesWhatWasAsked

-----------------------------------------------------------------------------
(* Reading a table, bare or under the environment, gives settings. *)
LEMMA LoadType ==
    ASSUME NEW table \in Settings, NEW e \in [Keys \cup {HashFile} -> Values \cup {Blank, Unset}]
    PROVE  Load(table, e) \in Settings /\ Read(table) \in Settings
BY KeysAssumption DEF Load, Read, Overlaid, Settings

(* What a key is read as depends on no other key. *)
LEMMA LoadOfKey ==
    ASSUME NEW t \in Settings, NEW u \in Settings,
           NEW e \in [Keys \cup {HashFile} -> Values \cup {Blank, Unset}], NEW k \in Keys, t[k] = u[k]
    PROVE  Load(t, e)[k] = Load(u, e)[k]
BY KeysAssumption DEF Load, Read, Overlaid, Settings

(* Nor does what main makes of it, a hash from the file included. *)
LEMMA ConfiguredType ==
    ASSUME NEW table \in Settings,
           NEW e \in [Keys \cup {HashFile} -> Values \cup {Blank, Unset}]
    PROVE  Configured(table, e) \in Settings
<1>1. Load(table, e) \in Settings
  BY LoadType
<1>2. ~NoVariable(e, HashFile) => e[HashFile] \in Values
  BY DEF NoVariable
<1>3. QED
  BY <1>1, <1>2 DEF Configured, Settings

LEMMA ConfiguredOfKey ==
    ASSUME NEW t \in Settings, NEW u \in Settings,
           NEW e \in [Keys \cup {HashFile} -> Values \cup {Blank, Unset}],
           NEW k \in Keys, t[k] = u[k]
    PROVE  Configured(t, e)[k] = Configured(u, e)[k]
BY LoadOfKey DEF Configured

(* The secret that a boot makes is a setting. *)
LEMMA SecretType ==
    ASSUME NEW table \in Settings, NEW cfg, NEW t \in EnsureSPCOssSecret(table, cfg)
    PROVE  t \in Settings
BY KeysAssumption DEF EnsureSPCOssSecret, Settings

(* Without a variable for it, the process reads a key as Save does. *)
LEMMA LoadIsRead ==
    ASSUME NEW t \in Settings, NEW e \in [Keys \cup {HashFile} -> Values \cup {Blank, Unset}],
           NEW k \in Keys, e[k] = Unset
    PROVE  Load(t, e)[k] = loadDBOnly(t)[k]
BY DEF Load, Read, Overlaid, loadDBOnly

(* One statement of a save in `own`: the others learn of it, and the rest of
   that save has written the key or the key is recorded. *)
LEMMA SetSettingStep ==
    ASSUME IInv, NEW k \in Keys, NEW v \in Values \cup {Blank},
           NEW own \in SUBSET saves, NEW rest \in SUBSET Saves,
           SetSetting(k, v, own, rest),
           UNCHANGED <<rows, env, run, booted, dirty>>,
           unreported \subseteq unreported',
           k \in unreported' \/ \E s \in rest : k \in s.wrote,
           \A s \in own : \/ s.wrote \subseteq unreported'
                          \/ \E r \in rest : s.wrote \subseteq r.wrote,
           \A s \in rest : /\ s.stage # "load"
                           /\ s.stage = "login" => s.diff \subseteq s.named
                           /\ \A j \in s.diff \ s.wrote :
                                 j \in s.named \cup s.stale \/ env[j] # Unset
    PROVE  IInv'
<1> DEFINE Told(o) == [o EXCEPT !.stale = IF o.stage = "load" THEN o.stale \cup {k} ELSE o.stale]
<1> USE DEF IInv
<1>1. /\ db' = [db EXCEPT ![k] = v]
      /\ saves' = {Told(o) : o \in saves \ own} \cup rest
  BY DEF SetSetting
<1>2. \A o \in saves : o \in Saves
  BY DEF TypeOK
<1>3. \A o \in saves : /\ Told(o) \in Saves /\ Told(o).stage = o.stage
                       /\ Told(o).named = o.named /\ Told(o).diff = o.diff
                       /\ Told(o).wrote = o.wrote /\ Told(o).new = o.new
                       /\ Told(o).stale = IF o.stage = "load" THEN o.stale \cup {k} ELSE o.stale
  BY <1>2 DEF Saves
<1>4. db \in Settings /\ db' \in Settings /\ \A j \in Keys : j # k => db'[j] = db[j]
  BY <1>1 DEF TypeOK, Settings
<1>5. TypeOK'
  BY <1>1, <1>3, <1>4 DEF TypeOK
<1> HIDE DEF Told
<1>5a. /\ \A s \in saves' : s \in rest \/ \E o \in saves \ own : s = Told(o)
       /\ \A o \in saves \ own : Told(o) \in saves'
       /\ \A s \in rest : s \in saves'
  BY <1>1
<1>6. BaseIsFresh'
  <2> SUFFICES ASSUME NEW s \in saves', s.stage = "load", NEW j \in Keys
               PROVE  j \in s.named \cup s.stale \/ s.new[j] = Load(db', env)[j]
    BY DEF BaseIsFresh
  <2>1. PICK o \in saves \ own : s = Told(o)
    BY <1>5a
  <2>2. CASE j = k
    BY <1>3, <2>1, <2>2
  <2>3. CASE j # k
    <3>1. Load(db', env)[j] = Load(db, env)[j]
      BY <1>4, <2>3, LoadOfKey DEF TypeOK
    <3>2. /\ o.stage = "load" /\ s.new = o.new /\ s.named = o.named
          /\ o.stale \subseteq s.stale
      BY <1>3, <2>1
    <3>3. j \in o.named \cup o.stale \/ o.new[j] = Load(db, env)[j]
      BY <3>2 DEF BaseIsFresh
    <3>4. QED
      BY <3>1, <3>2, <3>3
  <2>4. QED
    BY <2>2, <2>3
<1>7. LoginsAreNamed'
  <2> SUFFICES ASSUME NEW s \in saves', s.stage = "login"
               PROVE  s.diff \subseteq s.named
    BY DEF LoginsAreNamed
  <2>1. CASE s \in rest
    BY <2>1
  <2>2. ASSUME NEW o \in saves \ own, s = Told(o)
        PROVE  s.diff \subseteq s.named
    <3>1. o.stage = "login" /\ s.diff = o.diff /\ s.named = o.named
      BY <1>3, <2>2
    <3> QED
      BY <3>1 DEF LoginsAreNamed
  <2>3. QED
    BY <1>5a, <2>1, <2>2
<1>8. RestartIsReported'
  <2> SUFFICES ASSUME ~dirty
               PROVE  /\ booted = Enabled(rows)
                      /\ \A j \in Keys : \/ run[j] = Configured(db', env)[j]
                                            \/ j \in unreported'
                                            \/ \E s \in saves' : j \in s.wrote
    BY DEF RestartIsReported, Enabled
  <2>1. booted = Enabled(rows)
    BY DEF RestartIsReported
  <2>2. ASSUME NEW j \in Keys
        PROVE  \/ run[j] = Configured(db', env)[j]
               \/ j \in unreported'
               \/ \E s \in saves' : j \in s.wrote
    <3>1. CASE j = k
      BY <1>5a, <3>1
    <3>2. ASSUME NEW o \in saves, j \in o.wrote
          PROVE  j \in unreported' \/ \E s \in saves' : j \in s.wrote
      <4>1. CASE o \in own
        BY <1>5a, <3>2, <4>1
      <4>2. CASE o \notin own
        <5>1. Told(o) \in saves' /\ j \in Told(o).wrote
          BY <1>3, <1>5a, <3>2, <4>2
        <5>2. QED
          BY <5>1
      <4>3. QED
        BY <4>1, <4>2
    <3>3. CASE j # k /\ run[j] = Configured(db, env)[j]
      <4>2. Configured(db', env)[j] = Configured(db, env)[j]
        BY <1>4, <3>3, ConfiguredOfKey DEF TypeOK
      <4>3. QED
        BY <3>3, <4>2
    <3>4. QED
      BY <3>1, <3>2, <3>3 DEF RestartIsReported
  <2>3. QED
    BY <2>1, <2>2
<1>9. SavesWhatWasAsked'
  <2> SUFFICES ASSUME NEW s \in saves', NEW j \in s.diff \ s.wrote
               PROVE  j \in s.named \cup s.stale \/ env[j] # Unset
    BY DEF SavesWhatWasAsked
  <2>1. CASE s \in rest
    BY <2>1
  <2>2. CASE s \notin rest
    <3>1. PICK o \in saves : s = Told(o)
      BY <1>5a, <2>2
    <3>2. QED
      BY <1>3, <3>1 DEF SavesWhatWasAsked
  <2>3. QED
    BY <2>1, <2>2
<1>10. QED
  BY <1>5, <1>6, <1>7, <1>8, <1>9

(* A save that is over, or has failed with what it wrote on record. *)
LEMMA DropStep ==
    ASSUME IInv, NEW s \in saves, saves' = saves \ {s},
           UNCHANGED <<tables, process>>,
           unreported \subseteq unreported', dirty => dirty',
           dirty' \/ s.wrote \subseteq unreported'
    PROVE  IInv'
<1> USE DEF IInv, tables, process
<1>1. TypeOK' /\ BaseIsFresh' /\ LoginsAreNamed' /\ SavesWhatWasAsked'
  BY DEF TypeOK, BaseIsFresh, LoginsAreNamed, SavesWhatWasAsked
<1>2. RestartIsReported'
  BY DEF RestartIsReported
<1>3. QED
  BY <1>1, <1>2

(* A save that begins. *)
LEMMA AddStep ==
    ASSUME IInv, NEW s \in Saves, saves' = saves \cup {s},
           UNCHANGED <<tables, process, dirty, unreported>>,
           s.stage = "load" => \A k \in Keys : k \in s.named \/ s.new[k] = Load(db, env)[k],
           s.diff \subseteq s.named
    PROVE  IInv'
<1> USE DEF IInv, tables, process
<1>1. TypeOK' /\ BaseIsFresh' /\ LoginsAreNamed'
  BY DEF TypeOK, BaseIsFresh, LoginsAreNamed
<1>2. RestartIsReported' /\ SavesWhatWasAsked'
  BY DEF RestartIsReported, SavesWhatWasAsked
<1>3. QED
  BY <1>1, <1>2

(* Sources may change at will: the banner goes up. *)
LEMMA SourceStep ==
    ASSUME IInv, UNCHANGED <<db, process, saves, unreported>>, dirty' = TRUE
    PROVE  IInv'
<1> USE DEF IInv, process
<1>1. TypeOK' /\ BaseIsFresh' /\ LoginsAreNamed' /\ SavesWhatWasAsked'
  BY DEF TypeOK, BaseIsFresh, LoginsAreNamed, SavesWhatWasAsked
<1>2. RestartIsReported'
  BY DEF RestartIsReported
<1>3. QED
  BY <1>1, <1>2

(* What Save finds to write was asked for, or has been written since, or is
   the environment's. *)
LEMMA CompareStep == ASSUME IInv, NEW s, Compare(s) PROVE IInv'
<1> USE DEF IInv, tables, process, bounds
<1> DEFINE c == [s EXCEPT !.stage = "write", !.diff = Changed(s.new)]
<1>1. /\ s \in saves /\ s \in Saves /\ s.stage = "load"
      /\ saves' = (saves \ {s}) \cup {c}
      /\ UNCHANGED <<db, rows, env, run, booted, dirty, unreported>>
  BY DEF Compare, TypeOK
<1>2. /\ c \in Saves /\ c.stage = "write" /\ c.diff = Changed(s.new) /\ c.wrote = s.wrote
      /\ c.named = s.named /\ c.stale = s.stale
  BY <1>1 DEF Saves, Changed
<1> HIDE DEF c
<1>3. TypeOK' /\ BaseIsFresh' /\ LoginsAreNamed'
  BY <1>1, <1>2 DEF TypeOK, BaseIsFresh, LoginsAreNamed
<1>4. RestartIsReported'
  BY <1>1, <1>2 DEF RestartIsReported
<1>5. ASSUME NEW k \in c.diff PROVE k \in c.named \cup c.stale \/ env[k] # Unset
  <2>1. k \in Keys /\ s.new[k] # loadDBOnly(db)[k]
    BY <1>2, <1>5 DEF Changed
  <2>2. k \in s.named \cup s.stale \/ s.new[k] = Load(db, env)[k]
    BY <1>1, <2>1 DEF BaseIsFresh
  <2>3. env[k] = Unset => Load(db, env)[k] = loadDBOnly(db)[k]
    BY <2>1, LoadIsRead DEF TypeOK
  <2>4. QED
    BY <1>2, <2>1, <2>2, <2>3
<1>6. SavesWhatWasAsked'
  BY <1>1, <1>5 DEF SavesWhatWasAsked
<1>7. QED
  BY <1>3, <1>4, <1>6

LEMMA WriteStep == ASSUME IInv, NEW s, NEW k \in Keys, Write(s, k) PROVE IInv'
<1> DEFINE w == [s EXCEPT !.wrote = s.wrote \cup {k}]
<1>1. /\ s \in saves /\ s \in Saves /\ s.stage = "write" /\ s.new[k] \in Values \cup {Blank}
      /\ SetSetting(k, s.new[k], {s}, {w})
      /\ UNCHANGED <<rows, env, run, booted, dirty, unreported>>
  BY DEF Write, process, IInv, TypeOK, Saves, Settings
<1>2. /\ w \in Saves /\ w.stage = "write" /\ w.named = s.named /\ w.stale = s.stale
      /\ w.diff = s.diff /\ w.wrote = s.wrote \cup {k}
  BY <1>1 DEF Saves
<1> HIDE DEF w
<1>3. \A j \in w.diff \ w.wrote : j \in w.named \cup w.stale \/ env[j] # Unset
  BY <1>1, <1>2 DEF IInv, SavesWhatWasAsked
<1>4. QED
  BY <1>1, <1>2, <1>3, SetSettingStep

(* The two statements of a login, and a rename. *)
LEMMA SaveUserStep == ASSUME IInv, NEW s, SaveUser(s) PROVE IInv'
<1> DEFINE w == [s EXCEPT !.wrote = {UserKey}]
<1>1. UserKey \in Keys
  BY KeysAssumption
<1>2. /\ s \in saves /\ s \in Saves /\ s.stage = "login" /\ s.wrote = {}
      /\ s.new[UserKey] \in Values \cup {Blank}
      /\ SetSetting(UserKey, s.new[UserKey], {s}, {w})
      /\ UNCHANGED <<rows, env, run, booted, dirty, unreported>>
  BY <1>1 DEF SaveUser, process, IInv, TypeOK, Saves, Settings
<1>3. /\ w \in Saves /\ w.stage = "login" /\ w.named = s.named
      /\ w.diff = s.diff /\ w.wrote = {UserKey}
  BY <1>1, <1>2 DEF Saves
<1> HIDE DEF w
<1>4. w.diff \subseteq w.named
  BY <1>2, <1>3 DEF IInv, LoginsAreNamed
<1>5. QED
  BY <1>1, <1>2, <1>3, <1>4, SetSettingStep

LEMMA SaveHashStep == ASSUME IInv, NEW s, SaveHash(s) PROVE IInv'
<1>1. HashKey \in Keys /\ HashKey \in LoginKeys /\ UserKey \in LoginKeys
  BY KeysAssumption DEF LoginKeys
<1>2. /\ s \in saves /\ s.wrote = {UserKey} /\ s.new[HashKey] \in Values \cup {Blank}
      /\ SetSetting(HashKey, s.new[HashKey], {s}, {})
      /\ UNCHANGED <<rows, env, run, booted, dirty>>
      /\ unreported' = unreported \cup LoginKeys
  BY <1>1 DEF SaveHash, process, IInv, TypeOK, Saves, Settings
<1>3. QED
  BY <1>1, <1>2, SetSettingStep

LEMMA RenameStep == ASSUME IInv, NEW name \in Values, Rename(name) PROVE IInv'
<1>1. NameKey \in Keys
  BY KeysAssumption
<1>2. /\ SetSetting(NameKey, name, {}, {})
      /\ UNCHANGED <<rows, env, run, booted, dirty>>
      /\ unreported' = unreported \cup {NameKey}
  BY DEF Rename
<1>3. QED
  BY <1>1, <1>2, SetSettingStep

(* A new process holds what the tables and its environment say. *)
LEMMA RestartStep == ASSUME IInv, NEW e \in Environments, Restart(e) PROVE IInv'
<1>1. /\ db' \in EnsureSPCOssSecret(db, run') /\ env' = e /\ run' = Configured(db, e)
      /\ booted' = Enabled(rows') /\ saves' = {}
      /\ unreported' = {k \in Keys : db'[k] # db[k]}
  BY DEF Restart, Boot
<1>2. e \in [Keys \cup {HashFile} -> Values \cup {Blank, Unset}] /\ db \in Settings
  BY KeysAssumption DEF IInv, TypeOK
<1>2a. db' \in Settings
  BY <1>1, <1>2, SecretType
<1>3. TypeOK'
  BY <1>1, <1>2, <1>2a, ConfiguredType DEF TypeOK
<1>4. BaseIsFresh' /\ LoginsAreNamed' /\ SavesWhatWasAsked'
  BY <1>1 DEF BaseIsFresh, LoginsAreNamed, SavesWhatWasAsked
<1>5. RestartIsReported'
  <2>1. ASSUME NEW k \in Keys, db'[k] = db[k] PROVE run'[k] = Configured(db', e)[k]
    BY <1>1, <1>2, <1>2a, <2>1, ConfiguredOfKey
  <2>2. QED
    BY <1>1, <2>1 DEF RestartIsReported, Enabled
<1>6. QED
  BY <1>3, <1>4, <1>5 DEF IInv

LEMMA InitIInv == Init => IInv
<1> HAVE Init
<1>1. NoSettings \in Settings
  BY DEF NoSettings, Settings
<1>2. env \in [Keys \cup {HashFile} -> Values \cup {Blank, Unset}]
  BY KeysAssumption DEF Init
<1>3. db \in Settings /\ run \in Settings
  BY <1>1, <1>2, ConfiguredType, SecretType DEF Init
<1>4. TypeOK
  BY <1>2, <1>3 DEF Init, TypeOK
<1>5. RestartIsReported
  <2>1. ASSUME NEW k \in Keys, db[k] = Blank PROVE run[k] = Configured(db, env)[k]
    <3>1. db[k] = NoSettings[k]
      BY <2>1 DEF NoSettings
    <3>2. QED
      BY <1>1, <1>2, <1>3, <3>1, ConfiguredOfKey DEF Init
  <2>2. QED
    BY <2>1 DEF Init, RestartIsReported
<1>6. QED
  BY <1>4, <1>5 DEF Init, IInv, BaseIsFresh, LoginsAreNamed, SavesWhatWasAsked

(* Nothing of the invariant is about the rest of the state. *)
LEMMA QuietStep ==
    ASSUME IInv, UNCHANGED <<db, rows, env, run, booted, dirty, saves, unreported>>
    PROVE  IInv'
BY DEF IInv, TypeOK, BaseIsFresh, LoginsAreNamed, RestartIsReported, SavesWhatWasAsked

(* The handlers' overlays name keys and bring values. *)
LEMMA BeginStep ==
    ASSUME IInv, NEW b, DOMAIN b \subseteq Keys,
           \A k \in DOMAIN b : b[k] \in Values \cup {Blank}, Begin(b)
    PROVE  IInv'
<1> DEFINE s == [stage |-> "load", named |-> DOMAIN b, stale |-> {}, diff |-> {},
                 wrote |-> {},
                 new |-> [k \in Keys |-> IF k \in DOMAIN b THEN b[k] ELSE Load(db, env)[k]]]
<1>1. Load(db, env) \in Settings
  BY LoadType DEF IInv, TypeOK
<1>2. s \in Saves
  BY <1>1 DEF Saves, Settings
<1>3. saves' = saves \cup {s} /\ UNCHANGED <<tables, process, dirty, unreported>>
  BY DEF Begin
<1>4. \A k \in Keys : k \in s.named \/ s.new[k] = Load(db, env)[k]
  OBVIOUS
<1>5. s.diff \subseteq s.named
  OBVIOUS
<1> HIDE DEF s
<1>6. QED
  BY <1>2, <1>3, <1>4, <1>5, AddStep

LEMMA NextStep == IInv /\ [Next]_vars => IInv'
<1> SUFFICES ASSUME IInv, [Next]_vars PROVE IInv'
  OBVIOUS
<1>1. ASSUME NEW b \in Bodies, handlePutConfig(b) PROVE IInv'
  BY <1>1, KeysAssumption, BeginStep DEF handlePutConfig
<1>1a. ASSUME NEW f \in Forms, handleSettingsSave(f) PROVE IInv'
  <2> DEFINE b == [k \in {j \in DOMAIN f : j # NameKey \/ f[j] # Blank} |-> f[k]]
  <2>1. /\ DOMAIN b \subseteq Keys
        /\ \A k \in DOMAIN b : b[k] \in Values \cup {Blank}
    BY KeysAssumption
  <2>2. Begin(b)
    BY <1>1a DEF handleSettingsSave
  <2> HIDE DEF b
  <2>3. QED
    BY <2>1, <2>2, BeginStep
<1>2. ASSUME NEW l \in Logins, Login(l) PROVE IInv'
  <2> DEFINE s == [stage |-> "login", named |-> LoginKeys, stale |-> {}, diff |-> LoginKeys,
                   wrote |-> {},
                   new |-> [k \in Keys |-> IF k \in LoginKeys THEN l[k] ELSE Blank]]
  <2>1. s \in Saves
    BY KeysAssumption DEF Saves, Settings, LoginKeys
  <2>2. saves' = saves \cup {s} /\ UNCHANGED <<tables, process, dirty, unreported>>
    BY <1>2 DEF Login
  <2>3. s.stage # "load" /\ s.diff \subseteq s.named
    OBVIOUS
  <2> HIDE DEF s
  <2>4. QED
    BY <2>1, <2>2, <2>3, AddStep
<1>3. ASSUME NEW s \in saves, Finish(s) PROVE IInv'
  <2>1. dirty' \/ s.wrote \subseteq unreported'
    BY <1>3 DEF Finish, RestartRequired
  <2>2. QED
    BY <1>3, <2>1, DropStep DEF Finish, tables, process, bounds
<1>4. ASSUME NEW s \in saves, Fail(s) \/ LoginFails(s) PROVE IInv'
  BY <1>4, DropStep DEF Fail, LoginFails, tables, process
<1>5. ASSUME NEW name, RenameFails(name) PROVE IInv'
  BY <1>5, QuietStep DEF RenameFails, tables
<1>6. ASSUME NEW t, NEW b, AddSource(t, b) PROVE IInv'
  BY <1>6, SourceStep DEF AddSource
<1>7. ASSUME NEW r, NEW b, UpdateSource(r, b) PROVE IInv'
  BY <1>7, SourceStep DEF UpdateSource
<1>8. ASSUME NEW r, DeleteSource(r) PROVE IInv'
  BY <1>8, SourceStep DEF DeleteSource
<1>9. CASE UNCHANGED vars
  BY <1>9, QuietStep DEF vars, tables, process
<1>10. Names \subseteq Values
  BY KeysAssumption
<1>11. QED
  BY <1>1, <1>1a, <1>2, <1>3, <1>4, <1>5, <1>6, <1>7, <1>8, <1>9, <1>10, CompareStep, WriteStep,
     SaveUserStep, SaveHashStep, RenameStep, RestartStep
     DEF Next, handleSetupSave, SeedUser

LEMMA Inductive == Spec => []IInv
BY InitIInv, NextStep, PTL DEF Spec
-----------------------------------------------------------------------------
(* The banner: for any settings, saves and sources, an unmarked process runs
   what a restart would load, hash file included, but for what a save under
   way has written and the recorded exceptions, the settings that the table
   of restart keys does not list and the secret that a boot makes among
   them. *)
THEOREM BannerIsTrue == Spec => []RestartIsReported
<1>1. IInv => RestartIsReported
  BY DEF IInv
<1>2. QED
  BY <1>1, Inductive, PTL

(* Settings and saves keep their types. *)
THEOREM TypeCorrect == Spec => []TypeOK
<1>1. IInv => TypeOK
  BY DEF IInv
<1>2. QED
  BY <1>1, Inductive, PTL

(* No save stores a key that it was not asked for, unless it overwrites a
   newer value or copies the environment. *)
THEOREM SavesAreNamed == Spec => []SavesWhatWasAsked
<1>1. IInv => SavesWhatWasAsked
  BY DEF IInv
<1>2. QED
  BY <1>1, Inductive, PTL

-----------------------------------------------------------------------------
(* The chat.                                                               *)


(* Where a goroutine is before its question is stored, where it is after,   *)
(* and where it is before its answer is.                                    *)
Before     == {"create", "question", "user"}
Questioned == (Asking \ {"user"}) \cup {"stream", "answer", "assistant", "done"}
Unanswered == Before \cup Asking \cup {"stream", "answer", "assistant", "failed"}

(* Both turns of an ask are stored, each once, but for a failed insert. *)
Done(a) ==
  /\ \A r \in Roles \ asks[a].failed : \E q : Turns(a, r) = {q}
  /\ \A q \in Turns(a, "user"), m \in Turns(a, "assistant") : q.created < m.created

(* What is stored of an ask, by the place where its goroutine is. *)
TurnsFit(a) ==
  /\ asks[a].at \in Before => \A m \in messages : m.ask # a
  /\ asks[a].at \in Unanswered => Turns(a, "assistant") = {}
  /\ asks[a].at \in Questioned /\ "user" \notin asks[a].failed => \E q : Turns(a, "user") = {q}
  /\ asks[a].at = "assistant" => \A q \in Turns(a, "user") : q.created < asks[a].now
  /\ asks[a].at = "done" => Done(a)
  /\ asks[a].said # "none" => asks[a].at \in {"close", "closed"}
  /\ asks[a].said = "done" => Done(a)
  /\ asks[a].said = "error" => Turns(a, "assistant") = {}

(* While nobody else writes into its session, the question of an ask is the *)
(* last message there, and its prompt has what lies before.                 *)
OrderFits(a) ==
  ~asks[a].crossed =>
    /\ asks[a].at = "user" =>
         \A m \in GetMessages(asks[a].session) : m.created <= asks[a].now
    /\ asks[a].at \in Asking \ {"user", "post"} /\ "user" \notin asks[a].failed =>
         \E q \in Turns(a, "user") :
            \A m \in GetMessages(asks[a].session) : m.created <= q.created
    /\ asks[a].at = "post" /\ asks[a].failed = {} =>
         \E q \in Turns(a, "user") :
            asks[a].history =
              Latest({m \in GetMessages(asks[a].session) : m.created < q.created}, Window)

(* A page without a text to cite is not cited. *)
CitesFit(a) ==
  /\ asks[a].bare \subseteq {p \in Pages : text[p] # "long"}
  /\ asks[a].cited \cap asks[a].bare = {}
  /\ Cardinality(asks[a].cited) <= Limit

AsksFit == \A a \in DOMAIN asks : TurnsFit(a) /\ OrderFits(a) /\ CitesFit(a)

ChatInv == ChatTypeOK /\ AsksFit

-----------------------------------------------------------------------------
(* Asks that keep their number are a sequence of asks again. *)
LEMMA SameAsks ==
    ASSUME asks \in Seq(Asks), DOMAIN asks' = DOMAIN asks,
           asks' = [b \in DOMAIN asks' |-> asks'[b]],
           \A b \in DOMAIN asks : asks'[b] \in Asks
    PROVE  asks' \in Seq(Asks) /\ Len(asks') = Len(asks)
<1>1. DOMAIN asks = 1..Len(asks) /\ Len(asks) \in Nat
  OBVIOUS
<1>2. asks' \in [1..Len(asks) -> Asks]
  BY <1>1
<1>3. asks' \in Seq(Asks)
  BY <1>1, <1>2
<1> QED
  BY <1>1, <1>2, <1>3

(* The step of one ask leaves what holds of the others, whatever becomes of  *)
(* the clock. *)
LEMMA OwnStep ==
    ASSUME ChatInv, NEW a \in DOMAIN asks, DOMAIN asks' = DOMAIN asks,
           asks' = [b \in DOMAIN asks' |-> asks'[b]],
           \A b \in DOMAIN asks \ {a} : asks'[b] = asks[b],
           asks'[a] \in Asks, asks'[a].now <= clock',
           sessions' \in Nat, clock' \in Nat, clock <= clock', troubles' \in Nat,
           UNCHANGED <<messages, notes>>,
           TurnsFit(a)', OrderFits(a)', CitesFit(a)'
    PROVE  ChatInv'
<1> USE DEF ChatInv
<1>1. \A b \in DOMAIN asks : asks'[b] \in Asks /\ asks[b] \in Asks
  BY DEF ChatTypeOK
<1>2. asks' \in Seq(Asks) /\ Len(asks') = Len(asks)
  BY <1>1, SameAsks DEF ChatTypeOK
<1>3. \A b \in DOMAIN asks' : asks'[b].now <= clock'
  <2> TAKE b \in DOMAIN asks'
  <2>1. CASE b = a
    BY <2>1
  <2>2. CASE b # a
    <3>1. asks'[b].now = asks[b].now /\ asks[b].now <= clock /\ asks[b].now \in Nat
      BY <1>1, <2>2 DEF ChatTypeOK, Asks
    <3> QED
      BY <3>1 DEF ChatTypeOK
  <2> QED
    BY <2>1, <2>2
<1>4. \A m \in messages' : m.created <= clock' /\ m.ask <= Len(asks')
  <2> TAKE m \in messages'
  <2>1. m \in Messages /\ m.created <= clock /\ m.ask <= Len(asks)
    BY DEF ChatTypeOK
  <2> QED
    BY <1>2, <2>1 DEF ChatTypeOK, Messages
<1>5. ChatTypeOK'
  BY <1>2, <1>3, <1>4 DEF ChatTypeOK, notes
<1>6. ASSUME NEW b \in DOMAIN asks \ {a}
      PROVE  TurnsFit(b)' /\ OrderFits(b)' /\ CitesFit(b)'
  <2>1. TurnsFit(b) /\ OrderFits(b) /\ CitesFit(b) /\ asks'[b] = asks[b]
    BY <1>6 DEF AsksFit
  <2>2. \A r : Turns(b, r)' = Turns(b, r)
    BY <2>1 DEF Turns, GetMessages
  <2>3. TurnsFit(b)'
    <3>1. ASSUME Done(b)
          PROVE  Done(b)'
      <4>1. ASSUME NEW r \in Roles \ asks'[b].failed
            PROVE  \E q : Turns(b, r)' = {q}
        <5>1. PICK q : Turns(b, r) = {q}
          BY <2>1, <3>1, <4>1 DEF Done
        <5> QED
          BY <2>2, <5>1
      <4>2. \A q \in Turns(b, "user")', m \in Turns(b, "assistant")' : q.created < m.created
        BY <2>2, <3>1 DEF Done
      <4> QED
        BY <4>1, <4>2 DEF Done
    <3> QED
      BY <2>1, <2>2, <3>1 DEF TurnsFit
  <2>4. OrderFits(b)'
    BY <2>1, <2>2 DEF OrderFits, GetMessages, Latest
  <2>5. CitesFit(b)'
    BY <2>1 DEF CitesFit, notes
  <2> QED
    BY <2>3, <2>4, <2>5
<1>7. AsksFit'
  BY <1>6 DEF AsksFit
<1> QED
  BY <1>5, <1>7

(* One ask is another, the others are as they were. *)
LEMMA Replaced ==
    ASSUME ChatInv, NEW a \in DOMAIN asks, NEW r, asks' = [asks EXCEPT ![a] = r]
    PROVE  /\ DOMAIN asks' = DOMAIN asks /\ asks' = [b \in DOMAIN asks' |-> asks'[b]]
           /\ \A b \in DOMAIN asks \ {a} : asks'[b] = asks[b]
           /\ asks'[a] = r
BY DEF ChatInv, ChatTypeOK

(* A step between two places that are alike in what is stored by then. *)
LEMMA Onward ==
    ASSUME ChatInv, NEW a \in DOMAIN asks, NEW new \in Asks, asks' = [asks EXCEPT ![a] = new],
           new.session = asks[a].session, new.now = asks[a].now, new.history = asks[a].history,
           new.cited = asks[a].cited, new.bare = asks[a].bare, new.crossed = asks[a].crossed,
           new.failed = asks[a].failed, new.said = asks[a].said,
           new.said # "none" => new.at \in {"close", "closed"},
           \A S \in {Before, Questioned, Unanswered, Asking \ {"user", "post"},
                     {"user"}, {"post"}, {"assistant"}, {"done"}} :
               new.at \in S => asks[a].at \in S,
           UNCHANGED <<messages, notes, clock>>, sessions' \in Nat, troubles' \in Nat
    PROVE  ChatInv'
<1>0. /\ DOMAIN asks' = DOMAIN asks /\ asks' = [b \in DOMAIN asks' |-> asks'[b]]
      /\ \A b \in DOMAIN asks \ {a} : asks'[b] = asks[b]
      /\ asks'[a] = new
  BY Replaced
<1>1. TurnsFit(a) /\ OrderFits(a) /\ CitesFit(a)
  BY DEF ChatInv, AsksFit
<1>2. \A r : Turns(a, r)' = Turns(a, r)
  BY <1>0 DEF Turns, GetMessages
<1>3. Turns(a, "user")' = Turns(a, "user") /\ Turns(a, "assistant")' = Turns(a, "assistant")
  BY <1>2
<1>4. ASSUME Done(a)
      PROVE  Done(a)'
  <2>1. ASSUME NEW r \in Roles \ asks'[a].failed
        PROVE  \E q : Turns(a, r)' = {q}
    <3>1. PICK q : Turns(a, r) = {q}
      BY <1>0, <1>4, <2>1 DEF Done
    <3> QED
      BY <1>2, <3>1
  <2> QED
    BY <1>0, <1>3, <1>4, <2>1 DEF Done
<1>5. /\ asks'[a].at \in Before => asks[a].at \in Before
      /\ asks'[a].at \in Unanswered => asks[a].at \in Unanswered
      /\ asks'[a].at \in Questioned => asks[a].at \in Questioned
      /\ asks'[a].at \in Asking \ {"user", "post"} => asks[a].at \in Asking \ {"user", "post"}
      /\ asks'[a].at = "user" => asks[a].at = "user"
      /\ asks'[a].at = "post" => asks[a].at = "post"
      /\ asks'[a].at = "assistant" => asks[a].at = "assistant"
      /\ asks'[a].at = "done" => asks[a].at = "done"
  BY <1>0
<1>6. TurnsFit(a)'
  BY <1>0, <1>1, <1>3, <1>4, <1>5 DEF TurnsFit
<1>7. OrderFits(a)'
  BY <1>0, <1>1, <1>3, <1>5 DEF OrderFits, GetMessages, Latest
<1>8. CitesFit(a)'
  BY <1>0, <1>1 DEF CitesFit, notes
<1>9. clock \in Nat /\ clock' \in Nat /\ clock <= clock' /\ asks'[a].now <= clock'
  BY <1>0 DEF ChatInv, ChatTypeOK
<1> QED
  BY <1>0, <1>6, <1>7, <1>8, <1>9, OwnStep

(* What a step of one ask leaves in its records. *)
LEMMA AskType ==
    ASSUME ChatInv, NEW a \in DOMAIN asks
    PROVE  /\ asks[a] \in Asks /\ asks = [b \in DOMAIN asks |-> asks[b]]
           /\ sessions \in Nat /\ troubles \in Nat /\ clock \in Nat
           /\ asks[a].said # "none" => asks[a].at \in {"close", "closed"}
BY DEF ChatInv, ChatTypeOK, AsksFit, TurnsFit

(* A step that writes an event, leaves, or goes on to the next place. *)
LEMMA Turned ==
    ASSUME ChatInv, NEW a \in DOMAIN asks, NEW at \in Stages, NEW event \in Events,
           NEW gone \in BOOLEAN, NEW ranked \in Seq(Pages),
           asks' = [asks EXCEPT ![a] = [asks[a] EXCEPT !.at = at, !.event = event,
                                                      !.gone = gone, !.ranked = ranked]],
           asks[a].at = "close" => at \in {"close", "closed"},
           asks[a].at = "closed" => at = "closed",
           \A S \in {Before, Questioned, Unanswered, Asking \ {"user", "post"},
                     {"user"}, {"post"}, {"assistant"}, {"done"}} :
               at \in S => asks[a].at \in S,
           UNCHANGED <<messages, notes, clock>>, sessions' \in Nat, troubles' \in Nat
    PROVE  ChatInv'
<1>1. /\ asks[a] \in Asks
      /\ asks[a].said # "none" => asks[a].at \in {"close", "closed"}
  BY AskType
<1> DEFINE new == [asks[a] EXCEPT !.at = at, !.event = event, !.gone = gone, !.ranked = ranked]
<1>2. new \in Asks
  BY <1>1 DEF Asks
<1>3. /\ new.session = asks[a].session /\ new.now = asks[a].now
      /\ new.history = asks[a].history /\ new.cited = asks[a].cited
      /\ new.bare = asks[a].bare /\ new.crossed = asks[a].crossed
      /\ new.failed = asks[a].failed /\ new.said = asks[a].said /\ new.at = at
  BY <1>1 DEF Asks
<1> HIDE DEF new
<1>4. asks' = [asks EXCEPT ![a] = new]
  BY DEF new
<1>5. new.said # "none" => new.at \in {"close", "closed"}
  BY <1>1, <1>3
<1>6. \A S \in {Before, Questioned, Unanswered, Asking \ {"user", "post"},
                {"user"}, {"post"}, {"assistant"}, {"done"}} :
          new.at \in S => asks[a].at \in S
  BY <1>3
<1> QED
  BY <1>2, <1>3, <1>4, <1>5, <1>6, Onward

LEMMA EventKeeps ==
    ASSUME ChatInv, NEW a, \/ WriteEvent(a) \/ Leave(a) \/ SendSession(a)
                           \/ SendContext(a) \/ Chunk(a) \/ Close(a)
    PROVE  ChatInv'
<1>1. a \in DOMAIN asks
  BY DEF WriteEvent, Leave, SendSession, SendContext, Chunk, Close, Step, Awaited
<1>2. asks[a] \in Asks /\ troubles \in Nat /\ sessions \in Nat
  BY <1>1, AskType
<1>3. /\ asks[a].at \in Stages /\ asks[a].event \in Events /\ asks[a].gone \in BOOLEAN
      /\ asks[a].ranked \in Seq(Pages)
  BY <1>2 DEF Asks
<1>4. UNCHANGED <<messages, notes, clock>> /\ sessions' \in Nat /\ troubles' \in Nat
  BY <1>2 DEF WriteEvent, Leave, SendSession, SendContext, Chunk, Close, store, notes
<1>4a. /\ {"search", "prompt", "stream", "closed"} \subseteq Stages
       /\ {"session", "context", "content", "none"} \subseteq Events
  BY DEF Events, Stages, Asking, Dead
<1> DEFINE New(at, event, gone) == [asks[a] EXCEPT !.at = at, !.event = event, !.gone = gone,
                                                  !.ranked = asks[a].ranked]
<1>5. CASE WriteEvent(a)
  <2>1. [asks[a] EXCEPT !.event = "none"] = New(asks[a].at, "none", asks[a].gone)
    BY <1>2 DEF Asks
  <2>2. asks' = [asks EXCEPT ![a] = New(asks[a].at, "none", asks[a].gone)]
    BY <1>5, <2>1 DEF WriteEvent
  <2> QED
    BY <1>1, <1>3, <1>4, <1>4a, <2>2, Turned
<1>6. CASE Leave(a)
  <2>1. [asks[a] EXCEPT !.gone = TRUE] = New(asks[a].at, asks[a].event, TRUE)
    BY <1>2 DEF Asks
  <2>2. asks' = [asks EXCEPT ![a] = New(asks[a].at, asks[a].event, TRUE)]
    BY <1>6, <2>1 DEF Leave
  <2> QED
    BY <1>1, <1>3, <1>4, <1>4a, <2>2, Turned
<1>7. CASE SendSession(a)
  <2>1. [asks[a] EXCEPT !.event = "session", !.at = "search"] = New("search", "session", asks[a].gone)
    BY <1>2 DEF Asks
  <2>2. asks' = [asks EXCEPT ![a] = New("search", "session", asks[a].gone)]
    BY <1>7, <2>1 DEF SendSession, Send
  <2>3. asks[a].at = "session"
    BY <1>7 DEF SendSession, Step
  <2>4. \A S \in {Before, Questioned, Unanswered, Asking \ {"user", "post"},
                  {"user"}, {"post"}, {"assistant"}, {"done"}} :
            "search" \in S => asks[a].at \in S
    BY <2>3 DEF Before, Questioned, Unanswered, Asking
  <2> QED
    BY <1>1, <1>3, <1>4, <1>4a, <2>2, <2>3, <2>4, Turned
<1>8. CASE SendContext(a)
  <2>1. [asks[a] EXCEPT !.event = "context", !.at = "prompt"] = New("prompt", "context", asks[a].gone)
    BY <1>2 DEF Asks
  <2>2. asks' = [asks EXCEPT ![a] = New("prompt", "context", asks[a].gone)]
    BY <1>8, <2>1 DEF SendContext, Send
  <2>3. asks[a].at = "context"
    BY <1>8 DEF SendContext, Step
  <2>4. \A S \in {Before, Questioned, Unanswered, Asking \ {"user", "post"},
                  {"user"}, {"post"}, {"assistant"}, {"done"}} :
            "prompt" \in S => asks[a].at \in S
    BY <2>3 DEF Before, Questioned, Unanswered, Asking
  <2> QED
    BY <1>1, <1>3, <1>4, <1>4a, <2>2, <2>3, <2>4, Turned
<1>9. CASE Chunk(a)
  <2>1. [asks[a] EXCEPT !.event = "content", !.at = "stream"] = New("stream", "content", asks[a].gone)
    BY <1>2 DEF Asks
  <2>2. asks' = [asks EXCEPT ![a] = New("stream", "content", asks[a].gone)]
    BY <1>9, <2>1 DEF Chunk, Send
  <2>3. asks[a].at = "stream"
    BY <1>9 DEF Chunk, Step
  <2>4. \A S \in {Before, Questioned, Unanswered, Asking \ {"user", "post"},
                  {"user"}, {"post"}, {"assistant"}, {"done"}} :
            "stream" \in S => asks[a].at \in S
    BY <2>3 DEF Before, Questioned, Unanswered, Asking
  <2> QED
    BY <1>1, <1>3, <1>4, <1>4a, <2>2, <2>3, <2>4, Turned
<1>10. CASE Close(a)
  <2>1. [asks[a] EXCEPT !.event = "none", !.at = "closed", !.gone = FALSE] = New("closed", "none", FALSE)
    BY <1>2 DEF Asks
  <2>2. asks' = [asks EXCEPT ![a] = New("closed", "none", FALSE)]
    BY <1>10, <2>1 DEF Close
  <2>3. asks[a].at = "close"
    BY <1>10 DEF Close, Step
  <2>4. \A S \in {Before, Questioned, Unanswered, Asking \ {"user", "post"},
                  {"user"}, {"post"}, {"assistant"}, {"done"}} :
            "closed" \in S => asks[a].at \in S
    BY <2>3 DEF Before, Questioned, Unanswered, Asking
  <2> QED
    BY <1>1, <1>3, <1>4, <1>4a, <2>2, <2>3, <2>4, Turned
<1> QED
  BY <1>5, <1>6, <1>7, <1>8, <1>9, <1>10

(* What a search ranks are pages. *)
LEMMA MergedType ==
    ASSUME NEW hits, NEW embedded, NEW s \in Merged(hits, embedded)
    PROVE  s \in Seq(Pages)
<1> DEFINE score(p) == Score(Rank(Keyword, hits, p), Rank(Near, embedded, p))
<1> DEFINE found == {p \in Pages : score(p).num > 0}
<1>1. s \in SetToSeqs(found)
  BY DEF Merged
<1>2. IsFiniteSet(found) /\ Cardinality(found) \in Nat
  BY ChatAssumption, FS_Subset, FS_CardinalityType
<1>3. found \subseteq Pages
  OBVIOUS
<1> HIDE DEF found
<1>4. s \in [1..Cardinality(found) -> found]
  BY <1>1 DEF SetToSeqs
<1> QED
  BY <1>2, <1>3, <1>4

LEMMA SearchKeeps ==
    ASSUME ChatInv, NEW a, Search(a)
    PROVE  ChatInv'
<1>1. a \in DOMAIN asks /\ asks[a].at = "search"
  BY DEF Search, Step
<1>2. asks[a] \in Asks /\ troubles \in Nat /\ sessions \in Nat
  BY <1>1, AskType
<1>3. /\ asks[a].event \in Events /\ asks[a].gone \in BOOLEAN /\ asks[a].ranked \in Seq(Pages)
  BY <1>2 DEF Asks
<1>4. UNCHANGED <<messages, notes, clock>> /\ sessions' \in Nat /\ troubles' \in Nat
  BY <1>2 DEF Search, Works, Fails, store, notes
<1> DEFINE New(at, ranked) == [asks[a] EXCEPT !.at = at, !.event = asks[a].event,
                                             !.gone = asks[a].gone, !.ranked = ranked]
<1>5. \A at \in {"enrich", "prompt"} :
        \A S \in {Before, Questioned, Unanswered, Asking \ {"user", "post"},
                  {"user"}, {"post"}, {"assistant"}, {"done"}} :
            at \in S => asks[a].at \in S
  BY <1>1 DEF Before, Questioned, Unanswered, Asking
<1>6. ASSUME NEW embedded, NEW s \in Merged(KeywordHits, embedded),
             asks' = [asks EXCEPT ![a].ranked = s, ![a].at = "enrich"]
      PROVE  ChatInv'
  <2>1. s \in Seq(Pages)
    BY <1>6, MergedType
  <2>2. [asks[a] EXCEPT !.ranked = s, !.at = "enrich"] = New("enrich", s)
    BY <1>2 DEF Asks
  <2>3. asks' = [asks EXCEPT ![a] = New("enrich", s)]
    BY <1>6, <2>2
  <2> QED
    BY <1>1, <1>3, <1>4, <1>5, <2>1, <2>3, Turned DEF Stages, Asking
<1>7. CASE Fails(a) /\ Go(a, "prompt")
  <2>1. [asks[a] EXCEPT !.at = "prompt"] = New("prompt", asks[a].ranked)
    BY <1>2 DEF Asks
  <2>2. asks' = [asks EXCEPT ![a] = New("prompt", asks[a].ranked)]
    BY <1>7, <2>1 DEF Go
  <2> QED
    BY <1>1, <1>3, <1>4, <1>5, <2>2, Turned DEF Stages, Asking
<1> QED
  BY <1>6, <1>7 DEF Search

LEMMA StreamEndsKeeps ==
    ASSUME ChatInv, NEW a, StreamEnds(a)
    PROVE  ChatInv'
<1>1. a \in DOMAIN asks /\ asks[a].at = "stream"
  BY DEF StreamEnds, Step
<1>2. asks[a] \in Asks /\ troubles \in Nat /\ sessions \in Nat
  BY <1>1, AskType
<1>3. /\ asks[a].event \in Events /\ asks[a].gone \in BOOLEAN /\ asks[a].ranked \in Seq(Pages)
  BY <1>2 DEF Asks
<1>4. UNCHANGED <<messages, notes, clock>> /\ sessions' \in Nat /\ troubles' \in Nat
  BY <1>2 DEF StreamEnds, Works, Fails, store, notes
<1> DEFINE New(at) == [asks[a] EXCEPT !.at = at, !.event = asks[a].event,
                                     !.gone = asks[a].gone, !.ranked = asks[a].ranked]
<1>5. PICK at \in {"answer", "failed"} : Go(a, at)
  BY DEF StreamEnds
<1>6. \A S \in {Before, Questioned, Unanswered, Asking \ {"user", "post"},
                {"user"}, {"post"}, {"assistant"}, {"done"}} :
          at \in S => asks[a].at \in S
  BY <1>1 DEF Before, Questioned, Unanswered, Asking
<1>7. [asks[a] EXCEPT !.at = at] = New(at)
  BY <1>2 DEF Asks
<1>8. asks' = [asks EXCEPT ![a] = New(at)]
  BY <1>5, <1>7 DEF Go
<1>9. at \in Stages
  BY DEF Stages
<1> QED
  BY <1>1, <1>3, <1>4, <1>6, <1>8, <1>9, Turned

LEMMA CreateSessionKeeps ==
    ASSUME ChatInv, NEW a, CreateSession(a)
    PROVE  ChatInv'
<1>1. a \in DOMAIN asks /\ asks[a].at = "create"
  BY DEF CreateSession, Step
<1>2. asks[a] \in Asks /\ troubles \in Nat /\ sessions \in Nat /\ clock \in Nat
  BY <1>1, AskType
<1>3. /\ asks[a].event \in Events /\ asks[a].gone \in BOOLEAN /\ asks[a].ranked \in Seq(Pages)
  BY <1>2 DEF Asks
<1>4. UNCHANGED <<messages, notes, clock>> /\ sessions' \in Nat /\ troubles' \in Nat
  BY <1>2 DEF CreateSession, Works, Fails, notes
<1>5. CASE Works(a) /\ asks' = [asks EXCEPT ![a].session = sessions', ![a].at = "question"]
  <2> DEFINE new == [asks[a] EXCEPT !.session = sessions', !.at = "question"]
  <2>1. new \in Asks
    BY <1>2, <1>4 DEF Asks, Stages
  <2>2. /\ new.at = "question" /\ new.now = asks[a].now /\ new.said = asks[a].said
        /\ new.bare = asks[a].bare /\ new.cited = asks[a].cited
    BY <1>2 DEF Asks
  <2>3. asks' = [asks EXCEPT ![a] = new]
    BY <1>5
  <2> HIDE DEF new
  <2>4. /\ DOMAIN asks' = DOMAIN asks /\ asks' = [b \in DOMAIN asks' |-> asks'[b]]
        /\ \A b \in DOMAIN asks \ {a} : asks'[b] = asks[b]
        /\ asks'[a] = new
    BY <1>1, <2>3, Replaced
  <2>5. /\ \A m \in messages : m.ask # a
        /\ asks[a].said = "none" /\ CitesFit(a) /\ asks[a].now <= clock
    BY <1>1 DEF ChatInv, ChatTypeOK, AsksFit, TurnsFit, Before
  <2>6. Turns(a, "user")' = {} /\ Turns(a, "assistant")' = {}
    BY <1>4, <2>5 DEF Turns, GetMessages
  <2>7. TurnsFit(a)'
    BY <1>4, <2>2, <2>4, <2>5, <2>6 DEF TurnsFit, Questioned, Asking
  <2>8. OrderFits(a)'
    BY <2>2, <2>4 DEF OrderFits, Asking
  <2>9. CitesFit(a)'
    BY <1>4, <2>2, <2>4, <2>5 DEF CitesFit, notes
  <2> QED
    <3>1. clock' = clock /\ clock <= clock' /\ new.now <= clock'
      BY <1>2, <1>4, <2>2, <2>5
    <3> QED
      BY <1>1, <1>2, <1>4, <2>1, <2>4, <2>7, <2>8, <2>9, <3>1, OwnStep
<1>6. CASE Fails(a) /\ Go(a, "failed")
  <2> DEFINE New(at) == [asks[a] EXCEPT !.at = at, !.event = asks[a].event,
                                       !.gone = asks[a].gone, !.ranked = asks[a].ranked]
  <2>1. \A S \in {Before, Questioned, Unanswered, Asking \ {"user", "post"},
                  {"user"}, {"post"}, {"assistant"}, {"done"}} :
            "failed" \in S => asks[a].at \in S
    BY <1>1 DEF Before, Questioned, Unanswered, Asking
  <2>2. [asks[a] EXCEPT !.at = "failed"] = New("failed")
    BY <1>2 DEF Asks
  <2>3. asks' = [asks EXCEPT ![a] = New("failed")]
    BY <1>6, <2>2 DEF Go
  <2>4. "failed" \in Stages
    BY DEF Stages
  <2> QED
    BY <1>1, <1>3, <1>4, <2>1, <2>3, <2>4, Turned
<1> QED
  BY <1>5, <1>6 DEF CreateSession

(* A step of one ask that stores nothing: what is stored of it is as it was. *)
LEMMA OwnRecord ==
    ASSUME ChatInv, NEW a \in DOMAIN asks, NEW new \in Asks, asks' = [asks EXCEPT ![a] = new],
           new.session = asks[a].session, UNCHANGED <<messages, notes>>,
           clock' \in Nat, clock <= clock', new.now <= clock'
    PROVE  /\ asks'[a] = new /\ GetMessages(asks[a].session)' = GetMessages(asks[a].session)
           /\ Turns(a, "user")' = Turns(a, "user") /\ Turns(a, "assistant")' = Turns(a, "assistant")
           /\ sessions' \in Nat /\ troubles' \in Nat /\ TurnsFit(a)' /\ OrderFits(a)' /\ CitesFit(a)'
                => ChatInv'
<1>1. /\ DOMAIN asks' = DOMAIN asks /\ asks' = [b \in DOMAIN asks' |-> asks'[b]]
      /\ \A b \in DOMAIN asks \ {a} : asks'[b] = asks[b]
      /\ asks'[a] = new
  BY Replaced
<1>2. /\ GetMessages(asks[a].session)' = GetMessages(asks[a].session)
      /\ Turns(a, "user")' = Turns(a, "user") /\ Turns(a, "assistant")' = Turns(a, "assistant")
  BY <1>1 DEF Turns, GetMessages
<1> QED
  BY <1>1, <1>2, OwnStep

LEMMA TimeQuestionKeeps ==
    ASSUME ChatInv, NEW a, TimeQuestion(a)
    PROVE  ChatInv'
<1>1. /\ a \in DOMAIN asks /\ asks[a].at = "question" /\ clock' = clock + 1
      /\ asks' = [asks EXCEPT ![a].now = clock', ![a].at = "user"]
      /\ UNCHANGED <<sessions, messages, notes, troubles>>
  BY DEF TimeQuestion, TakeTime, Step
<1>2. asks[a] \in Asks /\ troubles \in Nat /\ sessions \in Nat /\ clock \in Nat
  BY <1>1, AskType
<1> DEFINE new == [asks[a] EXCEPT !.now = clock', !.at = "user"]
<1>3. clock' \in Nat /\ new \in Asks /\ asks' = [asks EXCEPT ![a] = new]
  <2>1. clock' \in Nat /\ "user" \in Stages
    BY <1>1, <1>2 DEF Stages, Asking
  <2>2. new \in Asks
    BY <1>2, <2>1 DEF Asks
  <2> QED
    BY <1>1, <2>1, <2>2
<1>4. /\ new.session = asks[a].session /\ new.at = "user" /\ new.now = clock'
      /\ new.said = asks[a].said /\ new.bare = asks[a].bare /\ new.cited = asks[a].cited
  BY <1>2 DEF Asks
<1> HIDE DEF new
<1>5. clock <= clock' /\ new.now <= clock'
  BY <1>1, <1>2, <1>4
<1>6. TurnsFit(a) /\ CitesFit(a)
  BY <1>1 DEF ChatInv, AsksFit
<1>7. /\ asks'[a] = new /\ GetMessages(asks[a].session)' = GetMessages(asks[a].session)
      /\ Turns(a, "user")' = Turns(a, "user") /\ Turns(a, "assistant")' = Turns(a, "assistant")
  BY <1>1, <1>3, <1>4, <1>5, OwnRecord
<1>8. TurnsFit(a)'
  BY <1>1, <1>4, <1>6, <1>7 DEF TurnsFit, Before, Questioned, Unanswered, Asking
<1>9. OrderFits(a)'
  <2>1. \A m \in GetMessages(asks[a].session) : m.created <= new.now
    <3> TAKE m \in GetMessages(asks[a].session)
    <3>1. m.created <= clock /\ m.created \in Nat
      BY DEF GetMessages, ChatInv, ChatTypeOK, Messages
    <3> QED
      BY <1>1, <1>2, <1>4, <3>1
  <2> QED
    BY <1>4, <1>7, <2>1 DEF OrderFits, Asking
<1>10. CitesFit(a)'
  BY <1>1, <1>4, <1>6, <1>7 DEF CitesFit, notes
<1> QED
  BY <1>1, <1>2, <1>3, <1>4, <1>5, <1>8, <1>9, <1>10, OwnRecord

LEMMA TimeAnswerKeeps ==
    ASSUME ChatInv, NEW a, TimeAnswer(a)
    PROVE  ChatInv'
<1>1. /\ a \in DOMAIN asks /\ asks[a].at = "answer" /\ clock' = clock + 1
      /\ asks' = [asks EXCEPT ![a].now = clock', ![a].at = "assistant"]
      /\ UNCHANGED <<sessions, messages, notes, troubles>>
  BY DEF TimeAnswer, TakeTime, Step
<1>2. asks[a] \in Asks /\ troubles \in Nat /\ sessions \in Nat /\ clock \in Nat
  BY <1>1, AskType
<1> DEFINE new == [asks[a] EXCEPT !.now = clock', !.at = "assistant"]
<1>3. clock' \in Nat /\ new \in Asks /\ asks' = [asks EXCEPT ![a] = new]
  <2>1. clock' \in Nat /\ "assistant" \in Stages
    BY <1>1, <1>2 DEF Stages
  <2>2. new \in Asks
    BY <1>2, <2>1 DEF Asks
  <2> QED
    BY <1>1, <2>1, <2>2
<1>4. /\ new.session = asks[a].session /\ new.at = "assistant" /\ new.now = clock'
      /\ new.said = asks[a].said /\ new.bare = asks[a].bare /\ new.cited = asks[a].cited
      /\ new.failed = asks[a].failed
  BY <1>2 DEF Asks
<1> HIDE DEF new
<1>5. clock <= clock' /\ new.now <= clock'
  BY <1>1, <1>2, <1>4
<1>6. TurnsFit(a) /\ CitesFit(a)
  BY <1>1 DEF ChatInv, AsksFit
<1>7. /\ asks'[a] = new
      /\ Turns(a, "user")' = Turns(a, "user") /\ Turns(a, "assistant")' = Turns(a, "assistant")
  BY <1>1, <1>3, <1>4, <1>5, OwnRecord
<1>8. \A q \in Turns(a, "user") : q.created < new.now
  <2> TAKE q \in Turns(a, "user")
  <2>1. q.created <= clock /\ q.created \in Nat
    BY DEF Turns, GetMessages, ChatInv, ChatTypeOK, Messages
  <2> QED
    BY <1>1, <1>2, <1>4, <2>1
<1>9. TurnsFit(a)'
  BY <1>1, <1>4, <1>6, <1>7, <1>8 DEF TurnsFit, Before, Questioned, Unanswered, Asking
<1>10. OrderFits(a)'
  BY <1>4, <1>7 DEF OrderFits, Asking
<1>11. CitesFit(a)'
  BY <1>1, <1>4, <1>6, <1>7 DEF CitesFit, notes
<1> QED
  BY <1>1, <1>2, <1>3, <1>4, <1>5, <1>9, <1>10, <1>11, OwnRecord

(* As many pages are cited as were read. *)
LEMMA CitedAreFew ==
    ASSUME NEW s
    PROVE  Cardinality(Cites(Results(s))) <= Limit
<1> DEFINE D == DOMAIN s \cap 1..Limit
<1> DEFINE C == Cites(Results(s))
<1>1. Limit \in Nat /\ IsFiniteSet(1..Limit) /\ Cardinality(1..Limit) = Limit
  BY ChatAssumption, FS_Interval
<1>2. IsFiniteSet(D) /\ Cardinality(D) <= Limit
  BY <1>1, FS_Subset
<1>3. \A p \in C : \E i \in D : s[i] = p
  BY DEF Cites, Results, EnrichResult
<1> HIDE DEF D, C
<1> DEFINE place == [p \in C |-> CHOOSE i \in D : s[i] = p]
<1>4. place \in Injection(C, D)
  <2>1. \A p \in C : place[p] \in D /\ s[place[p]] = p
    BY <1>3
  <2> QED
    BY <2>1 DEF Injection, IsInjective
<1>5. Cardinality(C) <= Cardinality(D)
  BY <1>2, <1>4, FS_Injection
<1>6. IsFiniteSet(C) /\ Cardinality(C) \in Nat /\ Cardinality(D) \in Nat
  BY <1>2, <1>4, FS_Injection, FS_CardinalityType
<1> QED
  BY <1>1, <1>2, <1>5, <1>6 DEF C

LEMMA EnrichKeeps ==
    ASSUME ChatInv, NEW a, Enrich(a)
    PROVE  ChatInv'
<1>1. /\ a \in DOMAIN asks /\ asks[a].at = "enrich" /\ UNCHANGED <<sessions, messages, clock, notes>>
      /\ troubles' \in {troubles, troubles + 1}
  BY DEF Enrich, Step, store, Works, Fails
<1>2. PICK read : asks' = [asks EXCEPT ![a].cited = Cites(Results(read)),
                                      ![a].ranked = <<>>, ![a].at = "context"]
  BY DEF Enrich
<1>3. asks[a] \in Asks /\ troubles' \in Nat /\ sessions' \in Nat /\ clock \in Nat
  BY <1>1, AskType
<1> DEFINE C == Cites(Results(read))
<1>4. C \subseteq {p \in Pages : text[p] = "long"} /\ Cardinality(C) <= Limit
  BY CitedAreFew DEF Cites, Results, EnrichResult
<1> HIDE DEF C
<1> DEFINE new == [asks[a] EXCEPT !.cited = C, !.ranked = <<>>, !.at = "context"]
<1>5. new \in Asks /\ asks' = [asks EXCEPT ![a] = new]
  <2>1. "context" \in Stages /\ C \in SUBSET Pages /\ <<>> \in Seq(Pages)
    BY <1>4 DEF Stages, Asking
  <2>2. new \in Asks
    BY <1>3, <2>1 DEF Asks
  <2> QED
    BY <1>2, <2>2 DEF C
<1>6. /\ new.session = asks[a].session /\ new.at = "context" /\ new.now = asks[a].now
      /\ new.said = asks[a].said /\ new.bare = asks[a].bare /\ new.cited = C
      /\ new.failed = asks[a].failed /\ new.crossed = asks[a].crossed
  BY <1>3 DEF Asks
<1> HIDE DEF new
<1>7. TurnsFit(a) /\ OrderFits(a) /\ CitesFit(a) /\ new.now <= clock' /\ clock <= clock' /\ clock' \in Nat
  BY <1>1, <1>3, <1>6 DEF ChatInv, ChatTypeOK, AsksFit
<1>8. /\ asks'[a] = new /\ GetMessages(asks[a].session)' = GetMessages(asks[a].session)
      /\ Turns(a, "user")' = Turns(a, "user") /\ Turns(a, "assistant")' = Turns(a, "assistant")
  BY <1>1, <1>5, <1>6, <1>7, OwnRecord
<1>9. TurnsFit(a)'
  BY <1>1, <1>6, <1>7, <1>8 DEF TurnsFit, Before, Questioned, Unanswered, Asking
<1>10. OrderFits(a)'
  BY <1>1, <1>6, <1>7, <1>8 DEF OrderFits, Asking
<1>11. CitesFit(a)'
  BY <1>1, <1>4, <1>6, <1>7, <1>8 DEF CitesFit, notes
<1> QED
  BY <1>1, <1>3, <1>5, <1>6, <1>7, <1>9, <1>10, <1>11, OwnRecord

(* When a message is the last one of its session, what History reads is what *)
(* lies before it.                                                           *)
LEMMA HistoryBefore ==
    ASSUME ChatTypeOK, NEW s, NEW q \in GetMessages(s),
           \A m \in GetMessages(s) : m.created <= q.created
    PROVE  History(s) = Latest({m \in GetMessages(s) : m.created < q.created}, Window)
<1>1. \A m \in GetMessages(s) : m.created \in Nat
  BY DEF GetMessages, ChatTypeOK, Messages
<1>2. {m \in GetMessages(s) : \E o \in GetMessages(s) : o.created > m.created}
        = {m \in GetMessages(s) : m.created < q.created}
  BY <1>1
<1> QED
  BY <1>2 DEF History

LEMMA HistoryType ==
    ASSUME ChatTypeOK, NEW s
    PROVE  History(s) \in SUBSET Messages
BY DEF History, Latest, GetMessages, ChatTypeOK

LEMMA BuildPromptKeeps ==
    ASSUME ChatInv, NEW a, BuildPrompt(a)
    PROVE  ChatInv'
<1>1. /\ a \in DOMAIN asks /\ asks[a].at = "prompt" /\ UNCHANGED <<sessions, messages, clock, notes>>
      /\ troubles' \in {troubles, troubles + 1}
  BY DEF BuildPrompt, Step, store, Works, Fails
<1>2. PICK h \in {History(asks[a].session), asks[a].history},
           f \in {asks[a].failed, asks[a].failed \cup {"history"}} :
        /\ asks' = [asks EXCEPT ![a] = [asks[a] EXCEPT !.history = h, !.failed = f, !.at = "post"]]
        /\ f = {} => h = History(asks[a].session)
  <2>1. asks[a] \in Asks
    BY <1>1, AskType
  <2>2. CASE asks' = [asks EXCEPT ![a].history = History(asks[a].session), ![a].at = "post"]
    <3> DEFINE h == History(asks[a].session)
    <3>1. [asks[a] EXCEPT !.history = h, !.at = "post"]
            = [asks[a] EXCEPT !.history = h, !.failed = asks[a].failed, !.at = "post"]
      BY <2>1 DEF Asks
    <3> QED
      BY <2>2, <3>1
  <2>3. CASE asks' = [asks EXCEPT ![a].failed = @ \cup {"history"}, ![a].at = "post"]
    <3> DEFINE f == asks[a].failed \cup {"history"}
    <3>1. [asks[a] EXCEPT !.failed = f, !.at = "post"]
            = [asks[a] EXCEPT !.history = asks[a].history, !.failed = f, !.at = "post"]
      BY <2>1 DEF Asks
    <3> QED
      BY <2>3, <3>1
  <2> QED
    BY <2>2, <2>3 DEF BuildPrompt
<1>3. asks[a] \in Asks /\ troubles' \in Nat /\ sessions' \in Nat /\ clock \in Nat
  BY <1>1, AskType
<1> DEFINE new == [asks[a] EXCEPT !.history = h, !.failed = f, !.at = "post"]
<1>4. new \in Asks /\ asks' = [asks EXCEPT ![a] = new]
  <2>1. "post" \in Stages /\ h \in SUBSET Messages /\ f \in SUBSET (Roles \cup {"history"})
    BY <1>3, HistoryType DEF Stages, Asking, ChatInv, Asks
  <2>2. new \in Asks
    BY <1>3, <2>1 DEF Asks
  <2> QED
    BY <1>2, <2>2
<1>5. /\ new.session = asks[a].session /\ new.at = "post" /\ new.now = asks[a].now
      /\ new.said = asks[a].said /\ new.bare = asks[a].bare /\ new.cited = asks[a].cited
      /\ new.failed = f /\ new.crossed = asks[a].crossed /\ new.history = h
  BY <1>3 DEF Asks
<1> HIDE DEF new
<1>6. TurnsFit(a) /\ OrderFits(a) /\ CitesFit(a) /\ new.now <= clock' /\ clock <= clock' /\ clock' \in Nat
  BY <1>1, <1>3, <1>5 DEF ChatInv, ChatTypeOK, AsksFit
<1>7. /\ asks'[a] = new /\ GetMessages(asks[a].session)' = GetMessages(asks[a].session)
      /\ Turns(a, "user")' = Turns(a, "user") /\ Turns(a, "assistant")' = Turns(a, "assistant")
  BY <1>1, <1>4, <1>5, <1>6, OwnRecord
<1>8. TurnsFit(a)'
  BY <1>1, <1>2, <1>5, <1>6, <1>7 DEF TurnsFit, Before, Questioned, Unanswered, Asking
<1>9. OrderFits(a)'
  <2>1. ASSUME ~asks[a].crossed, f = {}
        PROVE  \E q \in Turns(a, "user") :
                  h = Latest({m \in GetMessages(asks[a].session) : m.created < q.created}, Window)
    <3>1. PICK q \in Turns(a, "user") :
            \A m \in GetMessages(asks[a].session) : m.created <= q.created
      <4>1. "user" \notin asks[a].failed
        BY <1>2, <2>1
      <4> QED
        BY <1>1, <1>6, <2>1, <4>1 DEF OrderFits, Asking
    <3>2. q \in GetMessages(asks[a].session)
      BY <3>1 DEF Turns
    <3> QED
      BY <1>2, <2>1, <3>1, <3>2, HistoryBefore DEF ChatInv
  <2>2. \A q : Latest({m \in GetMessages(asks[a].session) : m.created < q.created}, Window)'
              = Latest({m \in GetMessages(asks[a].session) : m.created < q.created}, Window)
    BY <1>7 DEF Latest
  <2> QED
    BY <1>5, <1>7, <2>1, <2>2 DEF OrderFits, Asking, Latest
<1>10. CitesFit(a)'
  BY <1>1, <1>5, <1>6, <1>7 DEF CitesFit, notes
<1> QED
  BY <1>1, <1>3, <1>4, <1>5, <1>6, <1>8, <1>9, <1>10, OwnRecord

LEMMA StreamFromVLLMKeeps ==
    ASSUME ChatInv, NEW a, StreamFromVLLM(a)
    PROVE  ChatInv'
<1>1. /\ a \in DOMAIN asks /\ asks[a].at = "post" /\ UNCHANGED <<sessions, messages, clock, notes>>
      /\ troubles' \in {troubles, troubles + 1}
  BY DEF StreamFromVLLM, Step, store, Works, Fails
<1>2. PICK next \in {"stream", "failed"} :
        asks' = [asks EXCEPT ![a].history = {}, ![a].cited = {}, ![a].bare = {},
                             ![a].crossed = FALSE, ![a].at = next]
  BY DEF StreamFromVLLM
<1>3. asks[a] \in Asks /\ troubles' \in Nat /\ sessions' \in Nat /\ clock \in Nat
  BY <1>1, AskType
<1> DEFINE new == [asks[a] EXCEPT !.history = {}, !.cited = {}, !.bare = {},
                                  !.crossed = FALSE, !.at = next]
<1>4. new \in Asks /\ asks' = [asks EXCEPT ![a] = new]
  <2>1. next \in Stages
    BY DEF Stages
  <2>2. new \in Asks
    BY <1>3, <2>1 DEF Asks
  <2> QED
    BY <1>2, <2>2
<1>5. /\ new.session = asks[a].session /\ new.at = next /\ new.now = asks[a].now
      /\ new.said = asks[a].said /\ new.bare = {} /\ new.cited = {}
      /\ new.failed = asks[a].failed
  BY <1>3 DEF Asks
<1> HIDE DEF new
<1>6. TurnsFit(a) /\ new.now <= clock' /\ clock <= clock' /\ clock' \in Nat
  BY <1>1, <1>3, <1>5 DEF ChatInv, ChatTypeOK, AsksFit
<1>7. /\ asks'[a] = new
      /\ Turns(a, "user")' = Turns(a, "user") /\ Turns(a, "assistant")' = Turns(a, "assistant")
  BY <1>1, <1>4, <1>5, <1>6, OwnRecord
<1>8. TurnsFit(a)'
  BY <1>1, <1>5, <1>6, <1>7 DEF TurnsFit, Before, Questioned, Unanswered, Asking
<1>9. OrderFits(a)'
  BY <1>5, <1>7 DEF OrderFits, Asking
<1>10. CitesFit(a)'
  <2>1. Cardinality({}) <= Limit
    BY ChatAssumption, FS_EmptySet
  <2>2. asks'[a].bare = {} /\ asks'[a].cited = {}
    BY <1>5, <1>7
  <2> QED
    BY <2>1, <2>2 DEF CitesFit
<1> QED
  BY <1>1, <1>3, <1>4, <1>5, <1>6, <1>8, <1>9, <1>10, OwnRecord

LEMMA SendLastKeeps ==
    ASSUME ChatInv, NEW a, SendLast(a)
    PROVE  ChatInv'
<1>1. a \in DOMAIN asks /\ UNCHANGED <<sessions, messages, clock, notes, troubles>>
  BY DEF SendLast, store
<1>2. PICK event \in {"done", "error"} :
        /\ asks[a].at = IF event = "done" THEN "done" ELSE "failed"
        /\ asks' = [asks EXCEPT ![a].event = event, ![a].said = event,
                                ![a].at = "close", ![a].bare = {}]
  BY DEF SendLast
<1>3. asks[a] \in Asks /\ troubles' \in Nat /\ sessions' \in Nat /\ clock \in Nat
  BY <1>1, AskType
<1> DEFINE new == [asks[a] EXCEPT !.event = event, !.said = event, !.at = "close", !.bare = {}]
<1>4. new \in Asks /\ asks' = [asks EXCEPT ![a] = new]
  <2>1. "close" \in Stages /\ event \in Events
    BY DEF Stages, Events
  <2>2. new \in Asks
    BY <1>3, <2>1 DEF Asks
  <2> QED
    BY <1>2, <2>2
<1>5. /\ new.session = asks[a].session /\ new.at = "close" /\ new.now = asks[a].now
      /\ new.said = event /\ new.bare = {} /\ new.cited = asks[a].cited
      /\ new.failed = asks[a].failed
  BY <1>3 DEF Asks
<1> HIDE DEF new
<1>6. TurnsFit(a) /\ CitesFit(a) /\ new.now <= clock' /\ clock <= clock' /\ clock' \in Nat
  BY <1>1, <1>3, <1>5 DEF ChatInv, ChatTypeOK, AsksFit
<1>7. /\ asks'[a] = new
      /\ Turns(a, "user")' = Turns(a, "user") /\ Turns(a, "assistant")' = Turns(a, "assistant")
  BY <1>1, <1>4, <1>5, <1>6, OwnRecord
<1>8. TurnsFit(a)'
  <2>1. CASE event = "done"
    <3>1. Done(a)
      BY <1>2, <1>6, <2>1 DEF TurnsFit
    <3>2. ASSUME NEW r \in Roles \ asks'[a].failed
          PROVE  \E q : Turns(a, r)' = {q}
      <4>1. PICK q : Turns(a, r) = {q}
        BY <1>5, <1>7, <3>1, <3>2 DEF Done
      <4>2. r = "user" \/ r = "assistant"
        BY DEF Roles
      <4> QED
        BY <1>7, <4>1, <4>2
    <3>3. Done(a)'
      BY <1>7, <3>1, <3>2 DEF Done
    <3> QED
      BY <1>5, <1>7, <2>1, <3>3 DEF TurnsFit, Before, Questioned, Unanswered, Asking
  <2>2. CASE event = "error"
    <3>1. Turns(a, "assistant") = {}
      BY <1>2, <1>6, <2>2 DEF TurnsFit, Unanswered
    <3> QED
      BY <1>5, <1>7, <2>2, <3>1 DEF TurnsFit, Before, Questioned, Unanswered, Asking
  <2> QED
    BY <2>1, <2>2
<1>9. OrderFits(a)'
  BY <1>5, <1>7 DEF OrderFits, Asking
<1>10. CitesFit(a)'
  BY <1>1, <1>5, <1>6, <1>7 DEF CitesFit, notes
<1> QED
  BY <1>1, <1>3, <1>4, <1>5, <1>6, <1>8, <1>9, <1>10, OwnRecord

(* An ask goes on without a message whose insert failed. *)
LEMMA UnsavedKeeps ==
    ASSUME ChatInv, NEW a \in DOMAIN asks, UNCHANGED <<sessions, messages, clock, notes>>,
           troubles' \in {troubles, troubles + 1},
           NEW role \in Roles, asks[a].at = role,
           asks' = [asks EXCEPT ![a].at = IF role = "user" THEN "session" ELSE "done",
                                ![a].now = 0, ![a].failed = @ \cup {role}]
    PROVE  ChatInv'
<1>1. asks[a] \in Asks /\ troubles' \in Nat /\ sessions' \in Nat /\ clock \in Nat
  BY AskType
<1> DEFINE next == IF role = "user" THEN "session" ELSE "done"
<1> DEFINE new == [asks[a] EXCEPT !.at = next, !.now = 0, !.failed = asks[a].failed \cup {role}]
<1>2. new \in Asks /\ asks' = [asks EXCEPT ![a] = new]
  <2>1. next \in Stages /\ asks[a].failed \cup {role} \in SUBSET (Roles \cup {"history"})
    BY <1>1 DEF Stages, Asking, Asks
  <2>2. new \in Asks
    BY <1>1, <2>1 DEF Asks
  <2> QED
    BY <2>2
<1>3. /\ new.session = asks[a].session /\ new.at = next /\ new.now = 0
      /\ new.said = asks[a].said /\ new.bare = asks[a].bare /\ new.cited = asks[a].cited
      /\ new.failed = asks[a].failed \cup {role}
  BY <1>1 DEF Asks
<1> HIDE DEF new
<1>4. TurnsFit(a) /\ CitesFit(a) /\ new.now <= clock' /\ clock <= clock' /\ clock' \in Nat
  BY <1>1, <1>3 DEF ChatInv, AsksFit
<1>5. /\ asks'[a] = new
      /\ Turns(a, "user")' = Turns(a, "user") /\ Turns(a, "assistant")' = Turns(a, "assistant")
  BY <1>2, <1>3, <1>4, OwnRecord
<1>6. TurnsFit(a)' /\ OrderFits(a)'
  <2>1. CASE role = "user"
    <3>1. TurnsFit(a)'
      BY <1>3, <1>4, <1>5, <2>1 DEF TurnsFit, Before, Questioned, Unanswered, Asking
    <3>2. OrderFits(a)'
      BY <1>3, <1>5, <2>1 DEF OrderFits, Asking
    <3> QED
      BY <3>1, <3>2
  <2>2. CASE role = "assistant"
    <3>1. /\ Turns(a, "assistant") = {} /\ asks[a].said = "none"
          /\ "user" \notin asks[a].failed => \E q : Turns(a, "user") = {q}
      BY <1>4, <2>2 DEF TurnsFit, Unanswered, Questioned
    <3>2. ASSUME NEW r \in Roles \ asks'[a].failed
          PROVE  \E q : Turns(a, r)' = {q}
      <4>1. r = "user" /\ "user" \notin asks[a].failed
        BY <1>3, <1>5, <2>2, <3>2 DEF Roles
      <4> QED
        BY <1>5, <3>1, <4>1
    <3>3. Done(a)'
      BY <1>5, <3>1, <3>2 DEF Done
    <3>4. TurnsFit(a)'
      BY <1>3, <1>5, <2>2, <3>1, <3>3 DEF TurnsFit, Before, Questioned, Unanswered, Asking
    <3>5. OrderFits(a)'
      BY <1>3, <1>5, <2>2 DEF OrderFits, Asking
    <3> QED
      BY <3>4, <3>5
  <2> QED
    BY <2>1, <2>2 DEF Roles
<1>7. CitesFit(a)'
  BY <1>3, <1>4, <1>5 DEF CitesFit, notes
<1> QED
  BY <1>1, <1>2, <1>3, <1>4, <1>6, <1>7, OwnRecord

(* A message is stored: the others of its session learn of it, and its own   *)
(* ask goes on to the next place. *)
LEMMA SavedKeeps ==
    ASSUME ChatInv, NEW a \in DOMAIN asks, UNCHANGED <<sessions, clock, notes, troubles>>,
           NEW role \in Roles, asks[a].at = role, NEW message,
           message = [session |-> asks[a].session, role |-> role, ask |-> a,
                      created |-> asks[a].now],
           messages' = messages \cup {message},
           NEW next, next = IF role = "user" THEN "session" ELSE "done",
           asks' = [b \in DOMAIN asks |->
             IF b = a THEN [asks[a] EXCEPT !.at = next, !.now = 0]
             ELSE IF asks[b].session = asks[a].session /\ asks[b].at \in Asking
                  THEN [asks[b] EXCEPT !.crossed = TRUE]
             ELSE asks[b]]
    PROVE  ChatInv'
<1>1. /\ \A b \in DOMAIN asks : asks[b] \in Asks
      /\ clock \in Nat /\ asks \in Seq(Asks) /\ a \in Nat /\ a <= Len(asks)
  BY DEF ChatInv, ChatTypeOK
<1> DEFINE new == [asks[a] EXCEPT !.at = next, !.now = 0]
<1>2. new \in Asks
  <2>1. next \in Stages
    BY DEF Stages, Asking
  <2> QED
    BY <1>1, <2>1 DEF Asks
<1>3. /\ new.session = asks[a].session /\ new.at = next /\ new.now = 0
      /\ new.said = asks[a].said /\ new.bare = asks[a].bare /\ new.cited = asks[a].cited
      /\ new.failed = asks[a].failed /\ new.crossed = asks[a].crossed
  BY <1>1 DEF Asks
<1>4. asks'[a] = new /\ DOMAIN asks' = DOMAIN asks /\ asks' = [b \in DOMAIN asks' |-> asks'[b]]
  OBVIOUS
<1> HIDE DEF new
<1>5. ASSUME NEW b \in DOMAIN asks \ {a}
      PROVE  /\ asks'[b] \in Asks
             /\ asks'[b].session = asks[b].session /\ asks'[b].at = asks[b].at
             /\ asks'[b].now = asks[b].now /\ asks'[b].said = asks[b].said
             /\ asks'[b].bare = asks[b].bare /\ asks'[b].cited = asks[b].cited
             /\ asks'[b].failed = asks[b].failed /\ asks'[b].history = asks[b].history
             /\ \/ asks'[b].crossed
                \/ /\ asks'[b].crossed = asks[b].crossed
                   /\ asks[b].session # asks[a].session \/ asks[b].at \notin Asking
  <2>1. asks[b] \in Asks
    BY <1>1
  <2>2. CASE asks[b].session = asks[a].session /\ asks[b].at \in Asking
    <3>1. asks'[b] = [asks[b] EXCEPT !.crossed = TRUE]
      BY <2>2
    <3> QED
      BY <2>1, <3>1 DEF Asks
  <2>3. CASE ~(asks[b].session = asks[a].session /\ asks[b].at \in Asking)
    <3>1. asks'[b] = asks[b]
      BY <2>3
    <3> QED
      BY <2>1, <2>3, <3>1
  <2> QED
    BY <2>2, <2>3
<1>6. message \in Messages /\ message.created <= clock /\ message.ask = a
      /\ message.session = asks[a].session /\ message.role = role /\ message.created = asks[a].now
  BY <1>1 DEF ChatInv, ChatTypeOK, Messages, Asks
<1>7. asks' \in Seq(Asks) /\ Len(asks') = Len(asks)
  <2>1. \A b \in DOMAIN asks : asks'[b] \in Asks
    BY <1>2, <1>4, <1>5
  <2> QED
    BY <1>1, <1>4, <2>1, SameAsks
<1>8. ChatTypeOK'
  <2>1. \A b \in DOMAIN asks' : asks'[b].now <= clock
    BY <1>1, <1>3, <1>4, <1>5 DEF ChatInv, ChatTypeOK
  <2>2. \A m \in messages' : m.created <= clock /\ m.ask <= Len(asks)
    BY <1>1, <1>6 DEF ChatInv, ChatTypeOK
  <2>3. messages' \subseteq Messages
    BY <1>6 DEF ChatInv, ChatTypeOK
  <2> QED
    BY <1>7, <2>1, <2>2, <2>3 DEF ChatInv, ChatTypeOK, notes
<1>9. ASSUME NEW b \in DOMAIN asks \ {a}
      PROVE  TurnsFit(b)' /\ OrderFits(b)' /\ CitesFit(b)'
  <2>1. TurnsFit(b) /\ OrderFits(b) /\ CitesFit(b)
    BY <1>9 DEF ChatInv, AsksFit
  <2>2. \A r : Turns(b, r)' = Turns(b, r)
    BY <1>5, <1>6 DEF Turns, GetMessages
  <2>3. Turns(b, "user")' = Turns(b, "user") /\ Turns(b, "assistant")' = Turns(b, "assistant")
    BY <2>2
  <2>4. ASSUME Done(b)
        PROVE  Done(b)'
    <3>1. ASSUME NEW r \in Roles \ asks'[b].failed
          PROVE  \E q : Turns(b, r)' = {q}
      <4>1. PICK q : Turns(b, r) = {q}
        BY <1>5, <2>4, <3>1 DEF Done
      <4> QED
        BY <2>2, <4>1
    <3> QED
      BY <2>3, <2>4, <3>1 DEF Done
  <2>5. TurnsFit(b)'
    <3>1. asks[b].at \in Before => \A m \in messages' : m.ask # b
      BY <1>6, <2>1 DEF TurnsFit
    <3> QED
      BY <1>5, <2>1, <2>3, <2>4, <3>1 DEF TurnsFit
  <2>6. OrderFits(b)'
    <3>1. CASE asks'[b].crossed
      BY <3>1 DEF OrderFits
    <3>2. CASE asks[b].at \notin Asking
      BY <1>5, <3>2 DEF OrderFits, Asking
    <3>3. CASE asks'[b].crossed = asks[b].crossed /\ asks[b].session # asks[a].session
      <4>1. GetMessages(asks[b].session)' = GetMessages(asks[b].session)
        BY <1>5, <1>6, <3>3 DEF GetMessages
      <4> QED
        BY <1>5, <2>1, <2>3, <3>3, <4>1 DEF OrderFits, Latest
    <3> QED
      BY <1>5, <3>1, <3>2, <3>3
  <2>7. CitesFit(b)'
    BY <1>5, <2>1 DEF CitesFit, notes
  <2> QED
    BY <2>5, <2>6, <2>7
<1>10. TurnsFit(a) /\ OrderFits(a) /\ CitesFit(a) /\ asks[a].said = "none"
  BY DEF ChatInv, AsksFit, TurnsFit, Roles
<1>11. /\ Turns(a, role) = {} => Turns(a, role)' = {message}
       /\ \A r \in Roles \ {role} : Turns(a, r)' = Turns(a, r)
  BY <1>3, <1>4, <1>6 DEF Turns, GetMessages
<1>12. CitesFit(a)'
  BY <1>3, <1>4, <1>10 DEF CitesFit, notes
<1>13. CASE role = "user"
  <2>1. Turns(a, "user") = {} /\ Turns(a, "assistant") = {}
    BY <1>10, <1>13 DEF TurnsFit, Before, Turns, GetMessages
  <2>2. Turns(a, "user")' = {message} /\ Turns(a, "assistant")' = {}
    BY <1>11, <1>13, <2>1 DEF Roles
  <2>3. TurnsFit(a)'
    BY <1>3, <1>4, <1>10, <1>13, <2>2 DEF TurnsFit, Before, Questioned, Unanswered, Asking
  <2>4. ~asks[a].crossed => \A m \in GetMessages(asks[a].session)' : m.created <= message.created
    <3>1. asks[a].now \in Nat
      BY <1>1 DEF Asks
    <3> QED
      BY <1>3, <1>4, <1>6, <1>10, <1>13, <3>1 DEF OrderFits, GetMessages
  <2>5. OrderFits(a)'
    BY <1>3, <1>4, <1>13, <2>2, <2>4 DEF OrderFits, Asking
  <2> QED
    BY <1>4, <1>8, <1>9, <1>12, <2>3, <2>5 DEF ChatInv, AsksFit
<1>14. CASE role = "assistant"
  <2>1. /\ Turns(a, "assistant") = {}
        /\ "user" \notin asks[a].failed => \E q : Turns(a, "user") = {q}
        /\ \A q \in Turns(a, "user") : q.created < message.created
    BY <1>6, <1>10, <1>14 DEF TurnsFit, Unanswered, Questioned
  <2>2. Turns(a, "user")' = Turns(a, "user") /\ Turns(a, "assistant")' = {message}
    BY <1>11, <1>14, <2>1 DEF Roles
  <2>3. ASSUME NEW r \in Roles \ asks'[a].failed
        PROVE  \E q : Turns(a, r)' = {q}
    <3>1. CASE r = "user"
      BY <1>3, <1>4, <2>1, <2>2, <2>3, <3>1
    <3>2. CASE r = "assistant"
      BY <2>2, <3>2
    <3> QED
      BY <3>1, <3>2 DEF Roles
  <2>4. Done(a)'
    BY <2>1, <2>2, <2>3 DEF Done
  <2>5. TurnsFit(a)'
    <3>1. asks'[a].at = "done" /\ asks'[a].said = "none"
      BY <1>3, <1>4, <1>10, <1>14
    <3>2. "user" \notin asks'[a].failed => \E q : Turns(a, "user")' = {q}
      BY <1>3, <1>4, <2>1, <2>2
    <3> QED
      BY <2>4, <3>1, <3>2 DEF TurnsFit, Before, Questioned, Unanswered, Asking
  <2>6. OrderFits(a)'
    BY <1>3, <1>4, <1>14 DEF OrderFits, Asking
  <2> QED
    BY <1>4, <1>8, <1>9, <1>12, <2>5, <2>6 DEF ChatInv, AsksFit
<1> QED
  BY <1>13, <1>14 DEF Roles

LEMMA SaveKeeps ==
    ASSUME ChatInv, NEW a, SaveQuestion(a) \/ SaveAnswer(a)
    PROVE  ChatInv'
<1>1. PICK role \in Roles : AddMessage(a, role, IF role = "user" THEN "session" ELSE "done")
  BY DEF SaveQuestion, SaveAnswer, Roles
<1>2. a \in DOMAIN asks /\ asks[a].at = role /\ UNCHANGED <<sessions, clock, notes>>
  BY <1>1 DEF AddMessage, Step
<1> DEFINE next == IF role = "user" THEN "session" ELSE "done"
<1> DEFINE message == [session |-> asks[a].session, role |-> role, ask |-> a,
                       created |-> asks[a].now]
<1>3. ASSUME Fails(a), messages' = messages,
             asks' = [asks EXCEPT ![a].at = next, ![a].now = 0, ![a].failed = @ \cup {role}]
      PROVE  ChatInv'
  <2>1. troubles' \in {troubles, troubles + 1}
    BY <1>3 DEF Fails
  <2> QED
    BY <1>2, <1>3, <2>1, UnsavedKeeps
<1>4. ASSUME Works(a), messages' = messages \cup {message},
             asks' = [b \in DOMAIN asks |->
               IF b = a THEN [asks[a] EXCEPT !.at = next, !.now = 0]
               ELSE IF asks[b].session = asks[a].session /\ asks[b].at \in Asking
                    THEN [asks[b] EXCEPT !.crossed = TRUE]
               ELSE asks[b]]
      PROVE  ChatInv'
  <2>1. troubles' = troubles
    BY <1>4 DEF Works
  <2>2. PICK new : new = message
    OBVIOUS
  <2>3. PICK then : then = next
    OBVIOUS
  <2>4. /\ new = [session |-> asks[a].session, role |-> role, ask |-> a,
                  created |-> asks[a].now]
        /\ then = IF role = "user" THEN "session" ELSE "done"
    BY <2>2, <2>3
  <2> HIDE DEF message, next
  <2>5. /\ messages' = messages \cup {new}
        /\ asks' = [b \in DOMAIN asks |->
             IF b = a THEN [asks[a] EXCEPT !.at = then, !.now = 0]
             ELSE IF asks[b].session = asks[a].session /\ asks[b].at \in Asking
                  THEN [asks[b] EXCEPT !.crossed = TRUE]
             ELSE asks[b]]
    BY <1>4, <2>2, <2>3
  <2>6. UNCHANGED <<sessions, clock, notes, troubles>>
    BY <1>2, <2>1
  <2>7. a \in DOMAIN asks /\ asks[a].at = role
    BY <1>2
  <2> QED
    BY <2>4, <2>5, <2>6, <2>7, SavedKeeps, ZenonT(40)
<1> QED
  BY <1>1, <1>3, <1>4 DEF AddMessage

(* A new question has nothing stored yet. *)
LEMMA AskKeeps ==
    ASSUME ChatInv, Ask
    PROVE  ChatInv'
<1>1. PICK s \in ListSessions \cup {0} : asks' = Append(asks, NewAsk(s))
  BY DEF Ask
<1>2. UNCHANGED <<sessions, messages, clock, text, vectors, troubles>>
  BY DEF Ask, store, notes
<1>3. asks \in Seq(Asks) /\ sessions \in Nat /\ text \in [Pages -> Texts]
      /\ \A m \in messages : m \in Messages /\ m.created <= clock /\ m.ask <= Len(asks)
  BY DEF ChatInv, ChatTypeOK
<1>4. s \in Nat
  BY <1>3 DEF ListSessions
<1>5. NewAsk(s) \in Asks
  <2>1. <<>> \in Seq(Pages)
    OBVIOUS
  <2> QED
    BY <1>4, <2>1 DEF NewAsk, Asks, Stages, Events
<1>a. PICK n : n = Len(asks) + 1
  OBVIOUS
<1>6. /\ asks' \in Seq(Asks) /\ Len(asks') = n /\ DOMAIN asks' = DOMAIN asks \cup {n}
      /\ \A b \in DOMAIN asks : asks'[b] = asks[b]
      /\ asks'[n] = NewAsk(s) /\ Len(asks) \in Nat
  BY <1>1, <1>3, <1>5, <1>a
<1>7. NewAsk(s).now = 0 /\ clock \in Nat
  BY DEF NewAsk, ChatInv, ChatTypeOK
<1>8. ChatTypeOK'
  <2>1. \A b \in DOMAIN asks' : asks'[b].now <= clock
    BY <1>6, <1>7 DEF ChatInv, ChatTypeOK
  <2>2. \A m \in messages : m.created <= clock /\ m.ask <= Len(asks')
    BY <1>3, <1>6, <1>a DEF Messages
  <2> QED
    BY <1>2, <1>6, <2>1, <2>2 DEF ChatInv, ChatTypeOK
<1>9. ASSUME NEW b \in DOMAIN asks
      PROVE  TurnsFit(b)' /\ OrderFits(b)' /\ CitesFit(b)'
  <2>1. TurnsFit(b) /\ OrderFits(b) /\ CitesFit(b) /\ asks'[b] = asks[b]
    BY <1>6 DEF ChatInv, AsksFit
  <2>2. \A r : Turns(b, r)' = Turns(b, r)
    BY <1>2, <2>1 DEF Turns, GetMessages
  <2>3. ASSUME Done(b)
        PROVE  Done(b)'
    <3>1. ASSUME NEW r \in Roles \ asks'[b].failed
          PROVE  \E q : Turns(b, r)' = {q}
      <4>1. PICK q : Turns(b, r) = {q}
        BY <2>1, <2>3, <3>1 DEF Done
      <4> QED
        BY <2>2, <4>1
    <3>2. \A q \in Turns(b, "user")', m \in Turns(b, "assistant")' : q.created < m.created
      BY <2>2, <2>3 DEF Done
    <3> QED
      BY <3>1, <3>2 DEF Done
  <2>4. TurnsFit(b)'
    BY <1>2, <2>1, <2>2, <2>3 DEF TurnsFit
  <2>5. OrderFits(b)'
    BY <1>2, <2>1, <2>2 DEF OrderFits, GetMessages, Latest
  <2>6. CitesFit(b)'
    BY <1>2, <2>1 DEF CitesFit
  <2> QED
    BY <2>4, <2>5, <2>6
<1>10. TurnsFit(n)' /\ OrderFits(n)' /\ CitesFit(n)'
  <2>1. /\ asks'[n].at \in {"create", "question"} /\ asks'[n].said = "none"
        /\ asks'[n].cited = {} /\ asks'[n].bare = {p \in Pages : text[p] # "long"}
    BY <1>6 DEF NewAsk
  <2>2. \A m \in messages' : m.ask # n
    BY <1>2, <1>3, <1>6, <1>a DEF Messages
  <2>3. TurnsFit(n)'
    BY <2>1, <2>2 DEF TurnsFit, Before, Questioned, Unanswered, Asking, Turns, GetMessages
  <2>4. OrderFits(n)'
    BY <2>1 DEF OrderFits, Asking
  <2>5. Cardinality({}) <= Limit
    BY ChatAssumption, FS_EmptySet
  <2>6. CitesFit(n)'
    BY <1>2, <2>1, <2>5 DEF CitesFit
  <2> QED
    BY <2>3, <2>4, <2>6
<1> QED
  BY <1>6, <1>8, <1>9, <1>10 DEF ChatInv, AsksFit

(* An ask whose place and session stay has stored what it had. *)
LEMMA StaysPut ==
    ASSUME ChatInv, NEW b \in DOMAIN asks, UNCHANGED messages,
           asks'[b].session = asks[b].session, asks'[b].at = asks[b].at,
           asks'[b].now = asks[b].now, asks'[b].history = asks[b].history,
           asks'[b].crossed = asks[b].crossed, asks'[b].failed = asks[b].failed,
           asks'[b].said = asks[b].said
    PROVE  TurnsFit(b)' /\ OrderFits(b)'
<1>1. TurnsFit(b) /\ OrderFits(b)
  BY DEF ChatInv, AsksFit
<1>2. \A r : Turns(b, r)' = Turns(b, r)
  BY DEF Turns, GetMessages
<1>3. ASSUME Done(b)
      PROVE  Done(b)'
  <2>1. ASSUME NEW r \in Roles \ asks'[b].failed
        PROVE  \E q : Turns(b, r)' = {q}
    <3>1. PICK q : Turns(b, r) = {q}
      BY <1>3, <2>1 DEF Done
    <3> QED
      BY <1>2, <3>1
  <2>2. \A q \in Turns(b, "user")', m \in Turns(b, "assistant")' : q.created < m.created
    BY <1>2, <1>3 DEF Done
  <2> QED
    BY <2>1, <2>2 DEF Done
<1>4. TurnsFit(b)'
  BY <1>1, <1>2, <1>3 DEF TurnsFit
<1>5. OrderFits(b)'
  BY <1>1, <1>2 DEF OrderFits, GetMessages, Latest
<1> QED
  BY <1>4, <1>5

(* A page that gets a text is no longer among those that never had one. *)
LEMMA IndexPageKeeps ==
    ASSUME ChatInv, NEW p \in Pages, NEW t \in Texts, IndexPage(p, t)
    PROVE  ChatInv'
<1>1. /\ asks' = [a \in DOMAIN asks |->
                    IF t = "long" THEN [asks[a] EXCEPT !.bare = @ \ {p}] ELSE asks[a]]
      /\ text' = [text EXCEPT ![p] = t] /\ troubles' = troubles + 1
      /\ UNCHANGED <<sessions, messages, clock, vectors>>
  BY DEF IndexPage, store
<1>2. ChatTypeOK /\ asks \in Seq(Asks) /\ text \in [Pages -> Texts]
  BY DEF ChatInv, ChatTypeOK
<1>3. ASSUME NEW b \in DOMAIN asks
      PROVE  /\ asks'[b] \in Asks
             /\ asks'[b].session = asks[b].session /\ asks'[b].at = asks[b].at
             /\ asks'[b].now = asks[b].now /\ asks'[b].history = asks[b].history
             /\ asks'[b].crossed = asks[b].crossed /\ asks'[b].failed = asks[b].failed
             /\ asks'[b].said = asks[b].said /\ asks'[b].cited = asks[b].cited
             /\ asks'[b].bare = IF t = "long" THEN asks[b].bare \ {p} ELSE asks[b].bare
  <2>1. asks[b] \in Asks
    BY <1>2
  <2>2. CASE t = "long"
    <3>1. asks'[b] = [asks[b] EXCEPT !.bare = asks[b].bare \ {p}]
      BY <1>1, <2>2
    <3> QED
      BY <2>1, <2>2, <3>1 DEF Asks
  <2>3. CASE t # "long"
    BY <1>1, <2>1, <2>3
  <2> QED
    BY <2>2, <2>3
<1>4. DOMAIN asks' = DOMAIN asks /\ asks' = [b \in DOMAIN asks' |-> asks'[b]]
  BY <1>1
<1>5. asks' \in Seq(Asks) /\ Len(asks') = Len(asks)
  BY <1>2, <1>3, <1>4, SameAsks
<1>6. \A b \in DOMAIN asks' : asks'[b].now <= clock'
  BY <1>1, <1>2, <1>3, <1>4 DEF ChatTypeOK
<1>7. text' \in [Pages -> Texts]
  BY <1>1, <1>2
<1>8. ChatTypeOK'
  BY <1>1, <1>2, <1>5, <1>6, <1>7 DEF ChatTypeOK
<1>9. ASSUME NEW b \in DOMAIN asks
      PROVE  TurnsFit(b)' /\ OrderFits(b)' /\ CitesFit(b)'
  <2>1. TurnsFit(b)' /\ OrderFits(b)'
    BY <1>1, <1>3, StaysPut
  <2>2. CitesFit(b)
    BY DEF ChatInv, AsksFit
  <2>3. asks'[b].bare \subseteq {q \in Pages : text'[q] # "long"}
    BY <1>1, <1>2, <1>3, <2>2 DEF CitesFit
  <2>4. asks'[b].cited \cap asks'[b].bare = {}
    BY <1>3, <2>2 DEF CitesFit
  <2>5. Cardinality(asks'[b].cited) <= Limit
    BY <1>3, <2>2 DEF CitesFit
  <2> QED
    BY <2>1, <2>3, <2>4, <2>5 DEF CitesFit
<1> QED
  BY <1>4, <1>8, <1>9 DEF ChatInv, AsksFit

(* A crash ends every ask that runs; the ended ones keep what they stored. *)
LEMMA CrashKeeps ==
    ASSUME ChatInv, Crash
    PROVE  ChatInv'
<1>1. /\ asks' = [a \in DOMAIN asks |->
                    IF asks[a].at \in Dead THEN asks[a]
                    ELSE [NewAsk(0) EXCEPT !.at = "crashed", !.bare = {}]]
      /\ troubles' = troubles + 1 /\ UNCHANGED <<sessions, messages, clock, text, vectors>>
  BY DEF Crash, store, notes
<1>2. ChatTypeOK /\ asks \in Seq(Asks)
  BY DEF ChatInv, ChatTypeOK
<1>3. DOMAIN asks' = DOMAIN asks /\ asks' = [b \in DOMAIN asks' |-> asks'[b]]
  BY <1>1
<1> DEFINE ended == [NewAsk(0) EXCEPT !.at = "crashed", !.bare = {}]
<1>4. /\ ended \in Asks /\ ended.at = "crashed" /\ ended.said = "none" /\ ended.now = 0
      /\ ended.cited = {} /\ ended.bare = {}
  <2>1. <<>> \in Seq(Pages)
    OBVIOUS
  <2> QED
    BY <2>1 DEF NewAsk, Asks, Stages, Events, Dead
<1>5. \A b \in DOMAIN asks : asks'[b] = IF asks[b].at \in Dead THEN asks[b] ELSE ended
  BY <1>1
<1> HIDE DEF ended
<1>6. asks' \in Seq(Asks) /\ Len(asks') = Len(asks)
  BY <1>2, <1>3, <1>4, <1>5, SameAsks
<1>7. \A b \in DOMAIN asks' : asks'[b].now <= clock'
  <2>1. \A b \in DOMAIN asks : asks[b].now <= clock
    BY <1>2 DEF ChatTypeOK
  <2>2. 0 <= clock
    BY <1>2 DEF ChatTypeOK
  <2> QED
    BY <1>1, <1>3, <1>4, <1>5, <2>1, <2>2
<1>8. ChatTypeOK'
  BY <1>1, <1>2, <1>6, <1>7 DEF ChatTypeOK
<1>9. ASSUME NEW b \in DOMAIN asks
      PROVE  TurnsFit(b)' /\ OrderFits(b)' /\ CitesFit(b)'
  <2>1. CASE asks[b].at \in Dead
    <3>1. asks'[b] = asks[b]
      BY <1>5, <2>1
    <3>2. TurnsFit(b)' /\ OrderFits(b)'
      BY <1>1, <3>1, StaysPut
    <3>3. CitesFit(b)'
      BY <1>1, <3>1 DEF ChatInv, AsksFit, CitesFit
    <3> QED
      BY <3>2, <3>3
  <2>2. CASE asks[b].at \notin Dead
    <3>1. asks'[b].at = "crashed" /\ asks'[b].said = "none"
      BY <1>4, <1>5, <2>2
    <3>2. asks'[b].cited = {} /\ asks'[b].bare = {}
      BY <1>4, <1>5, <2>2
    <3>3. TurnsFit(b)'
      BY <3>1 DEF TurnsFit, Before, Questioned, Unanswered, Asking
    <3>4. OrderFits(b)'
      BY <3>1 DEF OrderFits, Asking
    <3>5. Cardinality({}) <= Limit
      BY ChatAssumption, FS_EmptySet
    <3>6. CitesFit(b)'
      BY <3>2, <3>5 DEF CitesFit
    <3> QED
      BY <3>3, <3>4, <3>6
  <2> QED
    BY <2>1, <2>2
<1> QED
  BY <1>3, <1>8, <1>9 DEF ChatInv, AsksFit

(* What leaves the asks, the messages and the texts alone. *)
LEMMA IdleKeeps ==
    ASSUME ChatInv, UNCHANGED <<sessions, messages, clock, text, asks>>,
           vectors' \subseteq Pages, troubles' \in Nat
    PROVE  ChatInv'
<1>1. ChatTypeOK'
  BY DEF ChatInv, ChatTypeOK
<1>2. ASSUME NEW b \in DOMAIN asks
      PROVE  TurnsFit(b)' /\ OrderFits(b)' /\ CitesFit(b)'
  <2>1. TurnsFit(b)' /\ OrderFits(b)'
    BY StaysPut
  <2>2. CitesFit(b)'
    BY DEF ChatInv, AsksFit, CitesFit
  <2> QED
    BY <2>1, <2>2
<1> QED
  BY <1>1, <1>2 DEF ChatInv, AsksFit

LEMMA EmbedPageKeeps ==
    ASSUME ChatInv, NEW p \in Pages, EmbedPage(p)
    PROVE  ChatInv'
<1>1. vectors' \subseteq Pages /\ troubles' \in Nat
  BY DEF ChatInv, ChatTypeOK, EmbedPage
<1> QED
  BY <1>1, IdleKeeps DEF EmbedPage, store

LEMMA ChatInitInv == ChatInit => ChatInv
<1> SUFFICES ASSUME ChatInit PROVE ChatInv
  OBVIOUS
<1>1. asks = <<>> /\ DOMAIN asks = {} /\ asks \in Seq(Asks) /\ Len(asks) = 0
  BY DEF ChatInit
<1>2. \A m \in messages : m \in Messages /\ m.created <= clock /\ m.ask <= Len(asks)
  BY <1>1 DEF ChatInit, Messages, Roles
<1>3. ChatTypeOK
  BY <1>1, <1>2 DEF ChatInit, ChatTypeOK, Texts
<1> QED
  BY <1>1, <1>3 DEF ChatInv, AsksFit

LEMMA ChatInvStep == ChatInv /\ [ChatNext]_chatVars => ChatInv'
<1> SUFFICES ASSUME ChatInv, [ChatNext]_chatVars PROVE ChatInv'
  OBVIOUS
<1>1. CASE Ask
  BY <1>1, AskKeeps
<1>2. ASSUME NEW a \in 1..MaxAsks, Goroutine(a) \/ Chunk(a) \/ WriteEvent(a) \/ Leave(a)
      PROVE  ChatInv'
  <2>1. CASE SendSession(a) \/ SendContext(a) \/ Close(a) \/ Chunk(a) \/ WriteEvent(a) \/ Leave(a)
    BY <2>1, EventKeeps
  <2>2. CASE CreateSession(a)
    BY <2>2, CreateSessionKeeps
  <2>3. CASE TimeQuestion(a) \/ TimeAnswer(a)
    BY <2>3, TimeQuestionKeeps, TimeAnswerKeeps
  <2>4. CASE SaveQuestion(a) \/ SaveAnswer(a)
    BY <2>4, SaveKeeps
  <2>5. CASE Search(a)
    BY <2>5, SearchKeeps
  <2>6. CASE Enrich(a)
    BY <2>6, EnrichKeeps
  <2>7. CASE BuildPrompt(a)
    BY <2>7, BuildPromptKeeps
  <2>8. CASE StreamFromVLLM(a)
    BY <2>8, StreamFromVLLMKeeps
  <2>9. CASE StreamEnds(a)
    BY <2>9, StreamEndsKeeps
  <2>10. CASE SendLast(a)
    BY <2>10, SendLastKeeps
  <2> QED
    BY <1>2, <2>1, <2>2, <2>3, <2>4, <2>5, <2>6, <2>7, <2>8, <2>9, <2>10 DEF Goroutine
<1>3. ASSUME NEW p \in Pages, NEW t \in Texts, IndexPage(p, t)
      PROVE  ChatInv'
  BY <1>3, IndexPageKeeps
<1>4. ASSUME NEW p \in Pages, EmbedPage(p)
      PROVE  ChatInv'
  BY <1>4, EmbedPageKeeps
<1>5. CASE Crash
  BY <1>5, CrashKeeps
<1>6. CASE UNCHANGED chatVars
  BY <1>6, IdleKeeps DEF chatVars, ChatInv, ChatTypeOK
<1> QED
  BY <1>1, <1>2, <1>3, <1>4, <1>5, <1>6 DEF ChatNext

-----------------------------------------------------------------------------
(* Whatever fails, leaves or crashes: what is stored of an ask fits the     *)
(* place where its goroutine is, its question is the last message of its    *)
(* session while nobody else writes there, and it cites pages with a text.  *)
THEOREM ChatInvariant == ChatSpec => []ChatInv
<1>1. ChatInit => ChatInv
  BY ChatInitInv
<1>2. ChatInv /\ [ChatNext]_chatVars => ChatInv'
  BY ChatInvStep
<1> QED
  BY <1>1, <1>2, PTL DEF ChatSpec

(* Sessions, messages, the index and every ask keep their types, and no     *)
(* message bears a time that was not taken or an ask that was not made.     *)
THEOREM ChatTypeCorrect == ChatSpec => []ChatTypeOK
<1>1. ChatInv => ChatTypeOK
  BY DEF ChatInv
<1> QED
  BY <1>1, ChatInvariant, PTL

(* An ask that ended with "done" has its question and its answer, in this   *)
(* order and each once, except for a failed insert; one that ended with an  *)
(* error has left no answer.                                               *)
THEOREM TurnsAreStoredHolds == ChatSpec => []TurnsAreStored
<1>1. ASSUME ChatInv
      PROVE  TurnsAreStored
  <2>1. ASSUME NEW a \in DOMAIN asks, asks[a].said = "done", NEW r \in Roles \ asks[a].failed
        PROVE  Cardinality(Turns(a, r)) = 1
    <3>1. PICK q : Turns(a, r) = {q}
      BY <1>1, <2>1 DEF ChatInv, AsksFit, TurnsFit, Done
    <3> QED
      BY <3>1, FS_Singleton
  <2>2. ASSUME NEW a \in DOMAIN asks, asks[a].said = "done"
        PROVE  \A q \in Turns(a, "user"), m \in Turns(a, "assistant") : q.created < m.created
    BY <1>1, <2>2 DEF ChatInv, AsksFit, TurnsFit, Done
  <2>3. ASSUME NEW a \in DOMAIN asks, asks[a].said = "error"
        PROVE  Turns(a, "assistant") = {}
    BY <1>1, <2>3 DEF ChatInv, AsksFit, TurnsFit
  <2> QED
    BY <2>1, <2>2, <2>3 DEF TurnsAreStored
<1> QED
  BY <1>1, ChatInvariant, PTL

(* Without other writers in its session an ask's prompt is the conversation *)
(* up to its question, and not the question itself.                         *)
THEOREM PromptIsConversationHolds == ChatSpec => []PromptIsConversation
<1>1. ASSUME ChatInv
      PROVE  PromptIsConversation
  <2>1. ASSUME NEW a \in DOMAIN asks, asks[a].at = "post", ~asks[a].crossed, asks[a].failed = {}
        PROVE  \E q \in Turns(a, "user") :
                 asks[a].history =
                   Latest({m \in GetMessages(asks[a].session) : m.created < q.created}, Window)
    BY <1>1, <2>1 DEF ChatInv, AsksFit, OrderFits
  <2> QED
    BY <2>1 DEF PromptIsConversation
<1> QED
  BY <1>1, ChatInvariant, PTL

(* No prompt cites a page that had no text to cite since the question, or   *)
(* more than Limit pages.                                                  *)
THEOREM CitesWhatIsThereHolds == ChatSpec => []CitesWhatIsThere
<1>1. ChatInv => CitesWhatIsThere
  BY DEF ChatInv, AsksFit, CitesFit, CitesWhatIsThere
<1> QED
  BY <1>1, ChatInvariant, PTL
=============================================================================
