------------------------------- MODULE Config -------------------------------
(***************************************************************************)
(* Settings, login and sources of the server: the settings table, the      *)
(* environment laid over it, the configuration that a process holds since  *)
(* its boot, and the flag by which it says that it should be restarted.    *)
(* Saves read a base, then the table again, and write the keys that differ *)
(* one statement at a time, beside the writers that go to the table        *)
(* directly: a CalDAV rename, the setup page and the seed-user command.    *)
(***************************************************************************)
EXTENDS Integers, FiniteSetsExt

CONSTANTS
    Keys,               \* the settings, those below among them
    NameKey,            \* caldav_collection_name
    UserKey, HashKey,   \* the login
    SyncKey,            \* the legacy switch of the ForestNote sync
    ModeKey, OssKey,    \* spc_mode and spc_oss_secret
    Flagged,            \* restartRequired
    Values, Blank,      \* a missing setting is a blank one
    Names,              \* the names that clients give the collection
    On,                 \* the value of SyncKey that switches it on
    Server, Secret,     \* the one of ModeKey, and a secret that a boot makes
    defaultValues,      \* what a blank setting means
    Bodies, Forms,      \* the overlays that requests bring: keys to values
    Logins,             \* the pairs that setup and seed-user are given
    Environments,       \* what the UB_ variables may be at a boot
    HashFile,           \* the one that stands for the file with a password hash
    Unset,              \* no such variable
    Types,              \* types of sources
    MaxRows, MaxRequests, MaxSaves, MaxBoots, MaxFaults

Settings == [Keys -> Values \cup {Blank}]
LoginKeys == {UserKey, HashKey}
Forestnote == "forestnote"
SourceRows == [id : Nat \ {0}, type : Types, enabled : BOOLEAN]

ASSUME KeysAssumption ==
    /\ {NameKey, UserKey, HashKey, SyncKey, ModeKey, OssKey} \subseteq Keys
    /\ Cardinality({NameKey, UserKey, HashKey, SyncKey, ModeKey, OssKey}) = 6
    /\ {Server, Secret} \subseteq Values /\ HashFile \notin Keys
    /\ Environments \subseteq [Keys \cup {HashFile} -> Values \cup {Blank, Unset}]
    /\ Flagged \subseteq Keys /\ On \in Values /\ Names \subseteq Values /\ Blank \notin Values
    /\ Unset \notin Values \cup {Blank}
    /\ defaultValues \in Settings /\ Forestnote \in Types
    /\ \A b \in Bodies \cup Forms :
          DOMAIN b \subseteq Keys /\ \A k \in DOMAIN b : b[k] \in Values \cup {Blank}
    /\ \A l \in Logins : DOMAIN l = LoginKeys /\ \A k \in LoginKeys : l[k] \in Values

VARIABLES
    db,         \* the settings table
    rows,       \* the sources table
    env,        \* the environment of the running process
    run,        \* the configuration it loaded
    booted,     \* the sources it found enabled
    live,       \* the name that the CalDAV backend serves
    dirty,      \* configDirty
    saves,      \* saves under way
    unreported, \* history: keys changed without the flag, since the boot
    requests, boots, faults

tables == <<db, rows>>
process == <<env, run, booted, live>>
bounds == <<requests, boots, faults>>
vars == <<tables, process, dirty, saves, unreported, bounds>>
-----------------------------------------------------------------------------
(* Blank settings mean their defaults. *)
Read(table) ==
    [k \in Keys |-> IF table[k] = Blank THEN defaultValues[k] ELSE table[k]]

(* A variable that is set replaces the stored value, an empty one too. *)
Overlaid(table, e) == [k \in Keys |-> IF e[k] = Unset THEN table[k] ELSE e[k]]

Load(table, e) == Read(Overlaid(table, e))

NoVariable(e, k) == e[k] \in {Blank, Unset}

(* What main makes of it: a hash from the file is above the table's. *)
Configured(table, e) ==
    [k \in Keys |-> IF k = HashKey /\ NoVariable(e, k) /\ ~NoVariable(e, HashFile)
                    THEN e[HashFile] ELSE Load(table, e)[k]]

(* The tables that a server's boot may leave, the secret being made after the
   settings were loaded; its failure is only logged. *)
EnsureSPCOssSecret(table, cfg) ==
    IF cfg[ModeKey] = Server /\ table[OssKey] = Blank
    THEN {table, [table EXCEPT ![OssKey] = Secret]}
    ELSE {table}

(* Mutant: the table is compared as it is. *)
loadBare(table) == table

(* What Save compares with: the table without the environment. *)
loadDBOnly(table) == Read(table)

Enabled(R) == {r \in R : r.enabled}
FreshId(R) == Max({0} \cup {r.id : r \in R}) + 1

(* The legacy switch becomes a source, unless there is one of its type. *)
Seeded(R, cfg) ==
    IF cfg[SyncKey] = On /\ \A r \in R : r.type # Forestnote
    THEN R \cup {[id |-> FreshId(R), type |-> Forestnote, enabled |-> TRUE]}
    ELSE R

(* Requests are checked against the table first, then what was loaded. *)
Credential(k) == IF db[k] # Blank THEN db[k] ELSE run[k]
LoginWorks == \A k \in LoginKeys : Credential(k) # Blank

IsSetupRequired ==
    /\ \E k \in LoginKeys : db[k] = Blank
    /\ \E k \in LoginKeys : NoVariable(env, k)
    /\ \E k \in {UserKey, HashFile} : NoVariable(env, k)

NoSettings == [k \in Keys |-> Blank]

Init ==
    /\ env \in Environments
    /\ run = Configured(NoSettings, env) /\ db \in EnsureSPCOssSecret(NoSettings, run)
    /\ rows = Seeded({}, run) /\ booted = Enabled(rows)
    /\ live = run[NameKey] /\ dirty = FALSE
    /\ saves = {} /\ unreported = {k \in Keys : db[k] # Blank}
    /\ requests = 0 /\ boots = 0 /\ faults = 0
-----------------------------------------------------------------------------
(* Saves.  `new` is what the request wants the settings to be, `named` the
   keys that it brought itself, `stale` (history) the keys that others wrote
   between its reads of the base and of the table, `diff` what it then found
   to write. *)
Request ==
    /\ requests < MaxRequests /\ requests' = requests + 1
    /\ UNCHANGED <<boots, faults>>
Fault == faults < MaxFaults /\ faults' = faults + 1 /\ UNCHANGED <<requests, boots>>

(* A statement that sets k: of the save in `own`, if any, which becomes the
   one in `rest`. *)
SetSetting(k, v, own, rest) ==
    /\ db' = [db EXCEPT ![k] = v]
    /\ saves' = {[o EXCEPT !.stale = IF o.stage = "load" THEN @ \cup {k} ELSE @] :
                     o \in saves \ own} \cup rest

(* A handler has loaded its base, as the process sees it, and laid the body
   over it. *)
Begin(body) ==
    /\ Request /\ LoginWorks /\ Cardinality(saves) < MaxSaves
    /\ saves' = saves \cup
          {[stage |-> "load", named |-> DOMAIN body, stale |-> {}, diff |-> {}, wrote |-> {},
            new |-> [k \in Keys |-> IF k \in DOMAIN body THEN body[k]
                                    ELSE Load(db, env)[k]]]}
    /\ UNCHANGED <<tables, process, dirty, unreported>>

(* JSON: the keys that are there, blank or not. *)
handlePutConfig(body) == Begin(body)

(* A section of the settings page: all its fields, but a blank name is none. *)
handleSettingsSave(form) ==
    Begin([k \in {j \in DOMAIN form : j # NameKey \/ form[j] # Blank} |-> form[k]])

Changed(new) == {k \in Keys : new[k] # loadDBOnly(db)[k]}

(* Save reads the table and decides what to write. *)
Compare(s) ==
    /\ s \in saves /\ s.stage = "load"
    /\ saves' = (saves \ {s}) \cup {[s EXCEPT !.stage = "write", !.diff = Changed(s.new)]}
    /\ UNCHANGED <<tables, process, dirty, unreported, bounds>>

(* The next statement, of the keys in the order of a Go map. *)
Write(s, k) ==
    /\ s \in saves /\ s.stage = "write" /\ k \in s.diff \ s.wrote
    /\ SetSetting(k, s.new[k], {s}, {[s EXCEPT !.wrote = @ \cup {k}]})
    /\ UNCHANGED <<rows, process, dirty, unreported, bounds>>

(* Mutant: the banner is for saves of nothing but such keys. *)
RestartOnlyIfAll(s) == s.diff # {} /\ s.diff \subseteq Flagged

RestartRequired(s) == s.diff \cap Flagged # {}

(* All written: UpdateConfig sets the flag, but not for a key that is not
   listed, though it is read once and for all like the others. *)
Finish(s) ==
    /\ s \in saves /\ s.stage = "write" /\ s.wrote = s.diff
    /\ saves' = saves \ {s}
    /\ dirty' = (dirty \/ RestartRequired(s))
    /\ unreported' = unreported \cup (s.diff \ Flagged)
    /\ UNCHANGED <<tables, process, bounds>>

(* A statement fails, or the client has gone: the rest is not written, and
   the flag is not set for what is. *)
Fail(s) ==
    /\ s \in saves /\ s.stage \in {"load", "write"} /\ Fault
    /\ saves' = saves \ {s}
    /\ unreported' = unreported \cup s.wrote
    /\ UNCHANGED <<tables, process, dirty>>
-----------------------------------------------------------------------------
(* Direct writers.  Name and hash of a login are two statements. *)
Login(login) ==
    /\ Request /\ Cardinality(saves) < MaxSaves
    /\ saves' = saves \cup {[stage |-> "login", named |-> LoginKeys, stale |-> {},
                             diff |-> LoginKeys, wrote |-> {},
                             new |-> [k \in Keys |-> IF k \in LoginKeys THEN login[k] ELSE Blank]]}
    /\ UNCHANGED <<tables, process, dirty, unreported>>

(* The setup page is behind the login as well: only a process that has one
   in memory, or in its environment, can serve it. *)
handleSetupSave(login) == IsSetupRequired /\ LoginWorks /\ Login(login)

(* Another process, on the same file. *)
SeedUser(login) == Login(login)

SaveUser(s) ==
    /\ s \in saves /\ s.stage = "login" /\ s.wrote = {}
    /\ SetSetting(UserKey, s.new[UserKey], {s}, {[s EXCEPT !.wrote = {UserKey}]})
    /\ UNCHANGED <<rows, process, dirty, unreported, bounds>>

SaveHash(s) ==
    /\ s \in saves /\ s.stage = "login" /\ s.wrote = {UserKey}
    /\ SetSetting(HashKey, s.new[HashKey], {s}, {})
    /\ unreported' = unreported \cup LoginKeys
    /\ UNCHANGED <<rows, process, dirty, bounds>>

(* A statement fails between the two. *)
LoginFails(s) ==
    /\ s \in saves /\ s.stage = "login" /\ Fault
    /\ saves' = saves \ {s}
    /\ unreported' = unreported \cup s.wrote
    /\ UNCHANGED <<tables, process, dirty>>

(* PROPPATCH of the display name: the running backend, then the table, whose
   failure the client is not told. *)
Rename(name) ==
    /\ Request /\ LoginWorks
    /\ live' = name /\ unreported' = unreported \cup {NameKey}
    /\ SetSetting(NameKey, name, {}, {})
    /\ UNCHANGED <<rows, env, run, booted, dirty>>

RenameFails(name) ==
    /\ Fault /\ LoginWorks
    /\ live' = name
    /\ UNCHANGED <<tables, env, run, booted, dirty, saves, unreported>>
-----------------------------------------------------------------------------
(* Sources.  An id that was the last one is given again. *)
AddSource(type, enabled) ==
    /\ Request /\ LoginWorks /\ Cardinality(rows) < MaxRows
    /\ rows' = rows \cup {[id |-> FreshId(rows), type |-> type, enabled |-> enabled]}
    /\ dirty' = TRUE
    /\ UNCHANGED <<db, process, saves, unreported>>

(* The row is the one of the id in the body, not of the one in the path. *)
UpdateSource(r, enabled) ==
    /\ Request /\ LoginWorks /\ r \in rows
    /\ rows' = (rows \ {r}) \cup {[r EXCEPT !.enabled = enabled]}
    /\ dirty' = TRUE
    /\ UNCHANGED <<db, process, saves, unreported>>

DeleteSource(r) ==
    /\ Request /\ LoginWorks /\ r \in rows
    /\ rows' = rows \ {r}
    /\ dirty' = TRUE
    /\ UNCHANGED <<db, process, saves, unreported>>

(* Stage 2 of main: load, promote the legacy switch, list what is enabled;
   then the server's part, whose secret the process uses itself. *)
Boot(e) ==
    /\ run' = Configured(db, e) /\ rows' = Seeded(rows, run') /\ booted' = Enabled(rows')
    /\ db' \in EnsureSPCOssSecret(db, run')
    /\ unreported' = {k \in Keys : db'[k] # db[k]}

(* The process ends, saves and all, and another takes over, perhaps with
   other variables and another hash in its file. *)
Restart(e) ==
    /\ boots < MaxBoots /\ boots' = boots + 1 /\ UNCHANGED <<requests, faults>>
    /\ Boot(e)
    /\ env' = e /\ live' = run'[NameKey] /\ dirty' = FALSE
    /\ saves' = {}
-----------------------------------------------------------------------------
Next ==
    \/ \E b \in Bodies : handlePutConfig(b)
    \/ \E f \in Forms : handleSettingsSave(f)
    \/ \E s \in saves : Compare(s) \/ Finish(s) \/ Fail(s)
    \/ \E s \in saves, k \in Keys : Write(s, k)
    \/ \E l \in Logins : handleSetupSave(l) \/ SeedUser(l)
    \/ \E s \in saves : SaveUser(s) \/ SaveHash(s) \/ LoginFails(s)
    \/ \E v \in Names : Rename(v) \/ RenameFails(v)
    \/ \E t \in Types, b \in BOOLEAN : AddSource(t, b)
    \/ \E r \in rows : DeleteSource(r) \/ \E b \in BOOLEAN : UpdateSource(r, b)
    \/ \E e \in Environments : Restart(e)

Spec == Init /\ [][Next]_vars
-----------------------------------------------------------------------------
Saves == [stage : {"load", "write", "login"}, named : SUBSET Keys, stale : SUBSET Keys,
          diff : SUBSET Keys, wrote : SUBSET Keys, new : Settings]

(* The shape of the settings and of the saves. *)
TypeOK ==
    /\ db \in Settings /\ run \in Settings
    /\ env \in [Keys \cup {HashFile} -> Values \cup {Blank, Unset}]
    /\ saves \subseteq Saves

(* While the banner is off, a restart would change nothing: the sources that
   run are those enabled in the table, and of every setting the process holds
   what it would load again, whatever saves, renames, logins and sources have
   been written beside each other.  Except for keys that a save under way has
   written, and those in unreported, which are more than the design has, for
   which the flag is up whenever the two differ (platform-neutral-config
   AC1.7): what a save wrote of the keys that restartRequired does not list
   (due_time_mode is read once, in main), what a save that failed half-way
   left behind (saving the same again does not find it), a rename over
   CalDAV, a login from the setup page or of seed-user, and the secret that
   the boot itself has made after it had loaded. *)
RestartIsReported ==
    dirty \/ /\ booted = Enabled(rows)
             /\ \A k \in Keys : \/ run[k] = Configured(db, env)[k]
                                \/ k \in unreported
                                \/ \E s \in saves : k \in s.wrote

(* A save writes the keys that its request named, though the handler stores
   the whole configuration: a default or the value of another request is
   never stored for a key that was not asked for, except over a write that
   came in since the base was read, which is lost, and for keys that the
   environment overrides, whose variables end up in the table. *)
SavesWhatWasAsked ==
    \A s \in saves : \A k \in s.diff \ s.wrote :
        k \in s.named \cup s.stale \/ env[k] # Unset
=============================================================================
