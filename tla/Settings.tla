------------------------------ MODULE Settings ------------------------------
(***************************************************************************)
(* The configuration while the server runs (config.rs, persist.rs,         *)
(* config_api.rs, keys_api.rs, restart.rs, main.rs): posts edit it          *)
(* concurrently, a task saves it when things have calmed down, and the     *)
(* process stops at any time and starts from the file.  Updates of the     *)
(* upstream key, the key list and the listen address are modelled; they    *)
(* have no side effect but the rebuilding of the key pool.                 *)
(***************************************************************************)
EXTENDS Naturals, Sequences, SequencesExt

CONSTANTS
  Posts,     \* POST requests, to /api/keys or /api/config
  Keys,      \* API keys
  NoKey,     \* the empty string
  EnvKey,    \* UMANS_API_KEY, or NoKey
  Addrs,     \* listen addresses
  Default,   \* the default listen address
  Updates,   \* bodies of POST /api/config: functions from fields to values
  Torn,      \* a file written half
  MaxStops,  \* bound: how often the process stops
  MaxFails   \* bound: how many saves fail

KeyLists == Seq(Keys \cup {NoKey})
Configs == [ver : Nat, apiKey : Keys \cup {NoKey}, keys : KeyLists, listen : Addrs]

ASSUME SettingsAssumption ==
  /\ NoKey \notin Keys /\ EnvKey \in Keys \cup {NoKey} /\ Default \in Addrs
  /\ Torn \notin Configs
  /\ \A u \in Updates :
       /\ DOMAIN u \subseteq {"apiKey", "keys", "listen"}
       /\ "apiKey" \in DOMAIN u => u.apiKey \in Keys \cup {NoKey}
       /\ "keys" \in DOMAIN u => u.keys \in KeyLists
       /\ "listen" \in DOMAIN u => u.listen \in Addrs
  /\ MaxStops \in Nat /\ MaxFails \in Nat

VARIABLES
  cfg,     \* the snapshot in force; `ver` says which of `past` it is
  pool,    \* the keys the pool was built from last
  post,    \* post[p]: how far post p is
  permit,  \* the saver's Notify holds a permit
  saver,   \* the saver task, and the snapshot it writes
  tmp,     \* config.json.tmp
  file,    \* config.json
  up,      \* "serving", "exiting" (a restart was asked for) or "down"
  stops, fails,
  past,    \* history: every configuration stored
  failed,  \* history: the last save failed
  raced    \* history: since the start, two posts overlapped

saverVars == <<permit, saver, tmp, file, fails, failed>>
vars == <<cfg, pool, post, saverVars, up, stops, past, raced>>

Idle == [at |-> "idle", next |-> Torn, fields |-> {}]

DefaultConfig == [ver |-> 1, apiKey |-> NoKey, keys |-> <<>>, listen |-> Default]

\* What a start makes of the file; a file that does not parse is ignored.
LoadFile(f) == IF f = Torn THEN DefaultConfig ELSE f
Load(f) ==
  IF EnvKey = NoKey THEN LoadFile(f) ELSE [LoadFile(f) EXCEPT !.apiKey = EnvKey]

\* The pool's first list: without a list the upstream key stands alone.
FirstPool(c) ==
  IF c.keys # <<>> THEN c.keys ELSE IF c.apiKey # NoKey THEN <<c.apiKey>> ELSE <<>>

Busy == {p \in Posts : post[p].at \notin {"idle", "done"}}
Up == up \in {"serving", "exiting"}

Init ==
  /\ file = DefaultConfig /\ past = <<file>> /\ tmp = Torn
  /\ cfg = Load(file) /\ pool = FirstPool(cfg)
  /\ post = [p \in Posts |-> Idle]
  /\ permit = FALSE /\ saver = Idle
  /\ up = "serving" /\ stops = 0 /\ fails = 0
  /\ failed = FALSE /\ raced = FALSE

-----------------------------------------------------------------------------
(* Edits. *)

Added(c, k) ==
  [c EXCEPT !.keys = Append(@, k), !.apiKey = IF @ = NoKey THEN k ELSE @]

Replaced(c, i, k) ==
  [c EXCEPT !.keys[i] = k, !.apiKey = IF i = 1 /\ k # NoKey THEN k ELSE @]

\* The first key that is not empty.
FirstKey(keys) ==
  LET full == {i \in DOMAIN keys : keys[i] # NoKey}
  IN IF full = {} THEN NoKey ELSE keys[CHOOSE i \in full : \A j \in full : i <= j]

\* A list never becomes empty here: a placeholder takes the last key's place.
Deleted(c, i) ==
  LET left == IF Len(c.keys) = 1 THEN <<NoKey>> ELSE RemoveAt(c.keys, i)
  IN [c EXCEPT !.keys = left, !.apiKey = IF i = 1 THEN FirstKey(left) ELSE @]

\* POST /api/keys: an index out of range changes nothing.
KeyEdits(c) ==
  {c} \cup {Added(c, k) : k \in Keys \cup {NoKey}}
      \cup {Replaced(c, i, k) : i \in DOMAIN c.keys, k \in Keys \cup {NoKey}}
      \cup {Deleted(c, i) : i \in DOMAIN c.keys}

\* ConfigStore::update() is a load, an edit of the clone, and a store, and
\* no lock spans them.
Begin(p, edited, fields) ==
  /\ Up /\ post[p].at = "idle"
  /\ post' = [post EXCEPT ![p] = [at |-> "loaded", next |-> edited, fields |-> fields]]
  /\ raced' = (raced \/ Busy # {})
  /\ UNCHANGED <<cfg, pool, saverVars, up, stops, past>>

PostKeys(p) == \E c \in KeyEdits(cfg) : Begin(p, c, {"apiKey", "keys"})

\* POST /api/config: a field that the body leaves out stays.
Given(u, field, old) == IF field \in DOMAIN u THEN u[field] ELSE old
Updated(c, u) ==
  [c EXCEPT !.apiKey = Given(u, "apiKey", @), !.keys = Given(u, "keys", @),
            !.listen = Given(u, "listen", @)]

\* Seeded fault: a field that the body leaves out gets its default.
PostConfigWhole(p) ==
  \E u \in Updates : Begin(p, Updated([DefaultConfig EXCEPT !.ver = cfg.ver], u), DOMAIN u)

PostConfig(p) == \E u \in Updates : Begin(p, Updated(cfg, u), DOMAIN u)

Store(p) ==
  /\ Up /\ post[p].at = "loaded"
  /\ LET stored == [post[p].next EXCEPT !.ver = Len(past) + 1]
     IN /\ cfg' = stored
        /\ past' = Append(past, stored)
        /\ post' = [post EXCEPT ![p] = [@ EXCEPT !.at = "stored", !.next = stored]]
  /\ UNCHANGED <<pool, saverVars, up, stops, raced>>

\* Seeded fault: POST /api/config stores a key list and leaves the pool alone.
ApplyOnlyKeyEdits(p) ==
  /\ Up /\ post[p].at = "stored"
  /\ pool' = IF post[p].fields = {"apiKey", "keys"} THEN post[p].next.keys ELSE pool
  /\ post' = [post EXCEPT ![p].at = "applied"]
  /\ UNCHANGED <<cfg, saverVars, up, stops, past, raced>>

\* The pool is rebuilt from the snapshot the post itself stored.
Apply(p) ==
  /\ Up /\ post[p].at = "stored"
  /\ pool' = IF "keys" \in post[p].fields THEN post[p].next.keys ELSE pool
  /\ post' = [post EXCEPT ![p].at = "applied"]
  /\ UNCHANGED <<cfg, saverVars, up, stops, past, raced>>

\* Seeded fault: a save on its way is thought to cover the change.
PingWhenIdle(p) ==
  /\ Up /\ post[p].at = "applied"
  /\ permit' = (permit \/ saver.at = "idle")
  /\ post' = [post EXCEPT ![p] = [Idle EXCEPT !.at = "done"]]
  /\ UNCHANGED <<cfg, pool, saver, tmp, file, fails, failed, up, stops, past, raced>>

\* notify_one() keeps at most one permit.  Then the post is answered.
Ping(p) ==
  /\ Up /\ post[p].at = "applied"
  /\ permit' = TRUE
  /\ post' = [post EXCEPT ![p] = [Idle EXCEPT !.at = "done"]]
  /\ UNCHANGED <<cfg, pool, saver, tmp, file, fails, failed, up, stops, past, raced>>

-----------------------------------------------------------------------------
(* The saver task. *)

SaverStep(from, to) ==
  /\ Up /\ saver.at = from
  /\ saver' = [saver EXCEPT !.at = to]
  /\ UNCHANGED <<cfg, pool, post, up, stops, past, raced>>

Notified ==
  /\ permit /\ permit' = FALSE
  /\ SaverStep("idle", "debounce")
  /\ UNCHANGED <<tmp, file, fails, failed>>

DebounceOver ==
  /\ SaverStep("debounce", "drain")
  /\ UNCHANGED <<permit, tmp, file, fails, failed>>

\* Another ping within the half second: the drain starts anew.
Drain ==
  /\ permit /\ permit' = FALSE
  /\ SaverStep("drain", "drain")
  /\ UNCHANGED <<tmp, file, fails, failed>>

\* Half a second without a ping, or with one the select! does not choose.
DrainOver ==
  /\ SaverStep("drain", "load")
  /\ UNCHANGED <<permit, tmp, file, fails, failed>>

TakeSnapshot ==
  /\ Up /\ saver.at = "load"
  /\ saver' = [saver EXCEPT !.at = "open", !.next = cfg]
  /\ UNCHANGED <<cfg, pool, post, permit, tmp, file, fails, failed, up, stops, past, raced>>

\* Seeded fault: the file itself is written.
OpenTmpInPlace ==
  /\ SaverStep("open", "write")
  /\ file' = Torn
  /\ UNCHANGED <<permit, tmp, fails, failed>>

OpenTmp ==
  /\ SaverStep("open", "write")
  /\ tmp' = Torn
  /\ UNCHANGED <<permit, file, fails, failed>>

WriteTmp ==
  /\ SaverStep("write", "rename")
  /\ tmp' = saver.next
  /\ UNCHANGED <<permit, file, fails, failed>>

\* Seeded fault: pings that came during the save are thrown away.
RenameDeaf ==
  /\ Up /\ saver.at = "rename"
  /\ file' = tmp
  /\ failed' = FALSE /\ permit' = FALSE
  /\ saver' = Idle
  /\ UNCHANGED <<cfg, pool, post, tmp, fails, up, stops, past, raced>>

Rename ==
  /\ Up /\ saver.at = "rename"
  /\ file' = tmp
  /\ failed' = FALSE
  /\ saver' = Idle
  /\ UNCHANGED <<cfg, pool, post, permit, tmp, fails, up, stops, past, raced>>

\* A save that fails is logged; nothing tries it again.
SaveFails ==
  /\ Up /\ saver.at \in {"open", "write", "rename"} /\ fails < MaxFails
  /\ fails' = fails + 1 /\ failed' = TRUE
  /\ saver' = Idle
  /\ UNCHANGED <<cfg, pool, post, permit, tmp, file, up, stops, past, raced>>

-----------------------------------------------------------------------------
(* Stopping and starting. *)

\* POST /api/restart answers and exits half a second later.
AskRestart ==
  /\ up = "serving" /\ stops < MaxStops
  /\ up' = "exiting"
  /\ UNCHANGED <<cfg, pool, post, saverVars, stops, past, raced>>

\* Memory is gone; a post that was not answered never will be.
Stop ==
  /\ stops < MaxStops
  /\ up' = "down" /\ stops' = stops + 1
  /\ post' = [p \in Posts |-> IF p \in Busy THEN [Idle EXCEPT !.at = "done"] ELSE post[p]]
  /\ permit' = FALSE /\ saver' = Idle
  /\ UNCHANGED <<cfg, pool, tmp, file, fails, failed, past, raced>>

Exit == up = "exiting" /\ Stop
\* A signal (nothing is saved on the way out) or a crash.
Die == Up /\ Stop

Start ==
  /\ up = "down" /\ up' = "serving"
  /\ cfg' = Load(file) /\ pool' = FirstPool(cfg')
  /\ failed' = FALSE /\ raced' = FALSE
  /\ UNCHANGED <<post, permit, saver, tmp, file, fails, stops, past>>

Save ==
  \/ Notified \/ DebounceOver \/ Drain \/ DrainOver
  \/ TakeSnapshot \/ OpenTmp \/ WriteTmp \/ Rename

Continue(p) == Store(p) \/ Apply(p) \/ Ping(p)

Next ==
  \/ \E p \in Posts : PostKeys(p) \/ PostConfig(p) \/ Continue(p)
  \/ Save \/ SaveFails \/ AskRestart \/ Exit \/ Die \/ Start

Spec == Init /\ [][Next]_vars

\* Handlers and the saver's task are scheduled, its timers run off, the
\* supervisor starts what exits.
LiveSpec ==
  /\ Spec /\ WF_vars(Save) /\ WF_vars(Start) /\ WF_vars(Exit)
  /\ \A p \in Posts : WF_vars(Continue(p))

-----------------------------------------------------------------------------
(* Properties *)

Typed(c) == c \in Configs /\ c.ver \in DOMAIN past

TypeOK ==
  /\ Typed(cfg) /\ pool \in KeyLists /\ permit \in BOOLEAN
  /\ \A c \in {file, tmp} : c = Torn \/ Typed(c)
  /\ saver.at \in {"open", "write", "rename"} => Typed(saver.next)
  /\ saver.at \in {"idle", "debounce", "drain", "load", "open", "write", "rename"}
  /\ \A p \in Posts :
       /\ post[p].at \in {"idle", "loaded", "stored", "applied", "done"}
       /\ p \in Busy => Typed(post[p].next)
  /\ up \in {"serving", "exiting", "down"}
  /\ stops \in 0..MaxStops /\ fails \in 0..MaxFails
  /\ failed \in BOOLEAN /\ raced \in BOOLEAN

\* Wherever a crash falls into a save, the file is a configuration that was
\* once stored, whole, and a start finds it.
FileWhole == file # Torn /\ file = past[file.ver]

\* When the server is quiet and the last save did not fail, the file holds
\* the configuration in force: a ping that comes while the saver waits,
\* drains or writes is not lost, and an exit that was asked for loses only
\* what the saver has yet to write (persist.rs 16-42, restart.rs 18-25).
SavedWhenQuiet ==
  Up /\ Busy = {} /\ saver.at = "idle" /\ ~permit /\ ~failed
    => file.ver = cfg.ver

\* After edits that did not overlap, and after every start, the pool has
\* the keys of the configuration in force.  (Without a list it may have one
\* key, taken from the upstream key at the start.)
PoolAgrees ==
  Up /\ Busy = {} /\ ~raced => pool = cfg.keys \/ (cfg.keys = <<>> /\ Len(pool) <= 1)

\* An update leaves the fields alone that it does not name, unless it overlaps
\* another: ConfigStore::update() stores what it loaded (config.rs 270-281).
AbsentFieldsKept ==
  [][\A p \in Posts : Store(p) /\ ~raced =>
       \A f \in {"apiKey", "keys", "listen"} \ post[p].fields : cfg'[f] = cfg[f]]_vars

\* Every change gets to the file, unless the save fails or the process stops.
ChangesSaved ==
  (Up /\ cfg.ver # file.ver) ~> (file.ver = cfg.ver \/ failed \/ up = "down")
=============================================================================
