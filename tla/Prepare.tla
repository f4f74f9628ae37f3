------------------------------- MODULE Prepare -------------------------------
(***************************************************************************)
(* What happens to a request between admission and the upstream call       *)
(* (chat.rs, messages.rs): its conversation finds its key, the model name  *)
(* is resolved, old images are left out, and for a model that cannot see   *)
(* the images are described by another one, with a cache (vision.rs).  The *)
(* catalog may be replaced between any two steps (config_api.rs).          *)
(***************************************************************************)
EXTENDS ConvMap, HandoffCache, FiniteSets, TLC

CONSTANTS
  Tasks,         \* tasks that handle requests, one after the other
  Anthropic,     \* those of /v1/messages
  Slots,         \* slots of the key pool, from 1
  Catalogs,      \* what the provider's catalog may be: of each model, vision
  NoCatalog,     \* before the first one
  Configs,       \* configurations: handoff, cache, maxImages, enabled, disabled
  NoUri,         \* the image of a part in which extract_image_uri() finds none
  Loads          \* what clients may send: of a conversation, model and image parts; and
                 \* bounds: on requests, catalogs, changes of the usable slots and clock steps

\* A model's name, with or without "umans-".
Name == [umans : BOOLEAN, base : STRING]
\* A part: whether it lies in a tool_result, what it is now, and the image it was.
Part == [nested : BOOLEAN, image : Digests \cup {NoUri},
         is : {"image", "shared", "description", "failure"}]

ASSUME PrepareAssumption ==
  /\ IsFiniteSet(Tasks) /\ Anthropic \subseteq Tasks
  /\ \A l \in Loads :
       /\ \A c \in DOMAIN l.of : l.of[c].model \in Name /\ l.of[c].parts \in Seq(Part)
       /\ \A c \in DOMAIN l.of : \A i \in DOMAIN l.of[c].parts : l.of[c].parts[i].is = "image"
       /\ DOMAIN l.of \subseteq Convs
       /\ {l.requests, l.swaps, l.rests, l.ticks} \subseteq Nat
  /\ IsFiniteSet(Slots) /\ Slots \subseteq Nat \ {0}
  /\ NoCatalog \notin Catalogs
  /\ \A k \in Catalogs : \A m \in DOMAIN k : m \in Name
  /\ \A f \in Configs : f.maxImages \in Nat /\ f.enabled \subseteq Name /\ f.disabled \subseteq Name

VARIABLES
  catalog,   \* CATALOG
  cfg,       \* the configuration
  load,      \* what the clients send
  usable,    \* slots with a key that is not resting
  task,      \* task[t]: how far the request in hand is
  done, swaps, rests, ticks,
  recency,   \* history: conversations by their last use, the latest first
  used,      \* history: images by their last use, the latest first
  lapsed,    \* history: images found expired and not described again since
  slots,     \* history: the slots a conversation was given
  excused,   \* history: conversations that may change their slot
  doubled    \* history: an image was described that the cache already held

boundVars == <<done, swaps, rests, ticks>>
historyVars == <<recency, used, lapsed, slots, excused, doubled>>
vars == <<convVars, lru, catalog, cfg, load, usable, task, boundVars, historyVars>>

Idle == [at |-> "idle", moved |-> FALSE]
At(t, place) == task[t].at = place
Chat(t) == t \notin Anthropic
Goto(t, place) == task' = [task EXCEPT ![t].at = place]

-----------------------------------------------------------------------------
(* The catalog. *)

\* effective_models(): without a catalog's models, the configured ones.
Effective(cat, f) == IF DOMAIN cat = {} THEN f.enabled ELSE DOMAIN cat \ f.disabled

ResolveModelId(requested, f) ==
  IF catalog = NoCatalog \/ requested.umans THEN requested
  ELSE LET prefixed == [requested EXCEPT !.umans = TRUE]
       IN IF prefixed \in Effective(catalog, f) THEN prefixed ELSE requested

NeedsHandoff(model, f) ==
  /\ f.handoff /\ catalog # NoCatalog
  /\ model \in DOMAIN catalog /\ catalog[model].vision = "via-handoff"

-----------------------------------------------------------------------------
(* The payload. *)

Counted(parts) == {i \in DOMAIN parts : parts[i].is = "image" /\ ~parts[i].nested}

\* The newest images are left out (a seeded fault).
LimitNewest(parts, max) ==
  LET images == Counted(parts)
      left == {i \in images : Cardinality({j \in images : j > i}) < Cardinality(images) - max}
  IN IF max = 0 THEN parts
     ELSE [i \in DOMAIN parts |-> IF i \in left THEN [parts[i] EXCEPT !.is = "shared"] ELSE parts[i]]

\* limit_images_in_messages(): the parts are collected in order, the system's
\* first; those of tool results are not counted.
LimitImages(parts, max) ==
  LET images == Counted(parts)
      left == {i \in images : Cardinality({j \in images : j < i}) < Cardinality(images) - max}
  IN IF max = 0 THEN parts
     ELSE [i \in DOMAIN parts |-> IF i \in left THEN [parts[i] EXCEPT !.is = "shared"] ELSE parts[i]]

\* collect_image_parts(): those of tool results too, but no part without a URI
\* where it is looked for, as when image_url is a string.
ImageParts(parts) == {i \in DOMAIN parts : parts[i].is = "image" /\ parts[i].image # NoUri}

-----------------------------------------------------------------------------
(* A request, step by step. *)

MoveFront(s, x) ==
  <<x>> \o IF x \in ToSet(s) THEN RemoveAt(s, CHOOSE i \in DOMAIN s : s[i] = x) ELSE s

\* touch()
Begin(t) ==
  /\ At(t, "idle") /\ done < load.requests
  /\ done' = done + 1
  /\ \E c \in DOMAIN load.of :
       /\ Touch(c)
       /\ task' = [task EXCEPT ![t] =
            [at |-> "touched", conv |-> c, slot |-> TokenOf(c), moved |-> FALSE,
             model |-> load.of[c].model, parts |-> load.of[c].parts, look |-> <<>>]]
       /\ recency' = IF Known(c) THEN MoveFront(recency, c) ELSE recency
  /\ UNCHANGED <<lru, catalog, cfg, load, usable, swaps, rests, ticks, used, lapsed, slots, excused, doubled>>

\* acquire(preferred), as in KeyPool; without a usable slot the request fails.
AcquireSlot(t) ==
  /\ At(t, "touched")
  /\ IF usable = {}
     THEN task' = [task EXCEPT ![t] = Idle]
     ELSE \E s \in IF task[t].slot \in usable THEN {task[t].slot} ELSE usable :
            task' = [task EXCEPT ![t].at = "keyed", ![t].slot = s]
  /\ excused' = IF task[t].slot \in usable \cup {0} THEN excused ELSE excused \cup {task[t].conv}
  /\ UNCHANGED <<convVars, lru, catalog, cfg, load, usable, boundVars, recency, used, lapsed, slots, doubled>>

\* track()
Overlapping(t) ==
  {c \in {task[t].conv} : \E q \in Tasks \ {t} :
     task[q].at \in {"touched", "keyed"} /\ task[q].conv = c}
TrackConv(t) ==
  LET c == task[t].conv
  IN /\ At(t, "keyed")
     /\ Track(c, task[t].slot)
     /\ task' = [task EXCEPT ![t].at = "tracked", ![t].slot = 0]
     /\ recency' = MoveFront(recency, c)
     /\ slots' = [slots EXCEPT ![c] = @ \cup {task[t].slot}]
     /\ excused' = excused \cup Overlapping(t) \cup (ToSet(order) \ ToSet(order'))
     /\ UNCHANGED <<lru, catalog, cfg, load, usable, boundVars, used, lapsed, doubled>>

Resolve(t) ==
  /\ At(t, "tracked")
  /\ task' = [task EXCEPT ![t].at = "resolved", ![t].model = ResolveModelId(@, cfg)]
  /\ UNCHANGED <<convVars, lru, catalog, cfg, load, usable, boundVars, historyVars>>

\* /v1/chat/completions leaves the images of a model with handoff alone,
\* /v1/messages limits them first.
Limit(t) ==
  /\ At(t, "resolved")
  /\ task' = [task EXCEPT ![t].at = "limited", ![t].parts =
       IF Chat(t) /\ NeedsHandoff(task[t].model, cfg) THEN @ ELSE LimitImages(@, cfg.maxImages)]
  /\ UNCHANGED <<convVars, lru, catalog, cfg, load, usable, boundVars, historyVars>>

\* The handler asks whether the images must be described ...
Decide(t) ==
  /\ At(t, "limited")
  /\ Goto(t, IF NeedsHandoff(task[t].model, cfg) THEN "handoff" ELSE "sent")
  /\ UNCHANGED <<convVars, lru, catalog, cfg, load, usable, boundVars, historyVars>>

\* ... and perform_vision_handoff() asks again.
Collect(t) ==
  LET images == ImageParts(task[t].parts)
  IN /\ At(t, "handoff")
     /\ task' = IF ~NeedsHandoff(task[t].model, cfg) \/ images = {}
                THEN [task EXCEPT ![t].at = "sent"]
                ELSE [task EXCEPT ![t].at = "analysing", ![t].look = [i \in images |-> "get"]]
     /\ UNCHANGED <<convVars, lru, catalog, cfg, load, usable, boundVars, historyVars>>

\* analyze_image(): the cache first.
Lookup(t, i) ==
  LET d == task[t].parts[i].image
  IN /\ At(t, "analysing") /\ task[t].look[i] = "get"
     /\ IF cfg.cache
        THEN /\ Get(d)
             /\ task' = [task EXCEPT ![t].look[i] = IF IsHit(d) THEN "description" ELSE "ask"]
             /\ used' = IF IsHit(d) THEN MoveFront(used, d) ELSE used
             /\ lapsed' = IF InCache(d) /\ ~IsHit(d) THEN lapsed \cup {d} ELSE lapsed
        ELSE /\ task' = [task EXCEPT ![t].look[i] = "ask"]
             /\ UNCHANGED <<lru, used, lapsed>>
     /\ UNCHANGED <<convVars, catalog, cfg, load, usable, boundVars, recency, slots, excused, doubled>>

\* The other model's answer is kept; a failure is not.
Answer(t, i) ==
  LET d == task[t].parts[i].image
  IN /\ At(t, "analysing") /\ task[t].look[i] = "ask"
     /\ \/ /\ task' = [task EXCEPT ![t].look[i] = "description"]
           /\ IF cfg.cache
              THEN /\ Set(d)
                   /\ used' = MoveFront(used, d) /\ lapsed' = lapsed \ {d}
                   /\ doubled' = (doubled \/ InCache(d))
              ELSE UNCHANGED <<lru, used, lapsed, doubled>>
        \/ /\ task' = [task EXCEPT ![t].look[i] = "failure"]
           /\ UNCHANGED <<lru, used, lapsed, doubled>>
     /\ UNCHANGED <<convVars, catalog, cfg, load, usable, boundVars, recency, slots, excused>>

\* Once all are analysed, the texts take the images' places.
Replace(t) ==
  LET look == task[t].look
  IN /\ At(t, "analysing") /\ \A i \in DOMAIN look : look[i] \in {"description", "failure"}
     /\ task' = [task EXCEPT ![t].at = "sent", ![t].look = <<>>, ![t].parts =
          [i \in DOMAIN @ |-> IF i \in DOMAIN look THEN [@[i] EXCEPT !.is = look[i]] ELSE @[i]]]
     /\ UNCHANGED <<convVars, lru, catalog, cfg, load, usable, boundVars, historyVars>>

\* The upstream call and what follows are in Pipeline.
Leave(t) ==
  /\ At(t, "sent")
  /\ task' = [task EXCEPT ![t] = Idle]
  /\ UNCHANGED <<convVars, lru, catalog, cfg, load, usable, boundVars, historyVars>>

\* validate(): nothing else replaces the catalog of a running server.
Validate ==
  /\ swaps < load.swaps /\ swaps' = swaps + 1
  /\ \E c \in Catalogs \ {catalog} : catalog' = c
  /\ task' = [t \in Tasks |-> [task[t] EXCEPT !.moved = ~At(t, "idle")]]
  /\ UNCHANGED <<convVars, lru, cfg, load, usable, done, rests, ticks, historyVars>>

\* Keys fail and come back (KeyPool).
Rest ==
  /\ rests < load.rests /\ rests' = rests + 1
  /\ \E S \in (SUBSET Slots) \ {usable} : usable' = S
  /\ UNCHANGED <<convVars, lru, catalog, cfg, load, task, done, swaps, ticks, historyVars>>

Tick ==
  /\ ticks < load.ticks /\ ticks' = ticks + 1
  /\ CacheTick
  /\ UNCHANGED <<convVars, catalog, cfg, load, usable, task, done, swaps, rests, historyVars>>

\* The start seeds the catalog, if the provider answers.
Init ==
  /\ ConvInit /\ CacheInit
  /\ catalog \in Catalogs \cup {NoCatalog} /\ cfg \in Configs /\ load \in Loads
  /\ usable = Slots
  /\ task = [t \in Tasks |-> Idle]
  /\ done = 0 /\ swaps = 0 /\ rests = 0 /\ ticks = 0
  /\ recency = <<>> /\ used = <<>> /\ lapsed = {}
  /\ slots = [c \in Convs |-> {}] /\ excused = {} /\ doubled = FALSE

Next ==
  \/ \E t \in Tasks :
       \/ Begin(t) \/ AcquireSlot(t) \/ TrackConv(t) \/ Resolve(t) \/ Limit(t) \/ Decide(t)
       \/ Collect(t) \/ Replace(t) \/ Leave(t)
       \/ At(t, "analysing") /\ \E i \in DOMAIN task[t].look : Lookup(t, i) \/ Answer(t, i)
  \/ Validate \/ Rest \/ Tick

Spec == Init /\ [][Next]_vars

-----------------------------------------------------------------------------
(* Properties. *)

Firsts(s, n) == {s[i] : i \in {j \in DOMAIN s : j <= n}}

\* However full the map gets, the conversations used last stay in it: at
\* least those an eviction leaves and the new one (sessions.rs 53-85).
RecentKept == Firsts(recency, EvictTo + 1) \subseteq ToSet(order) /\ Len(order) <= MapMax

\* All requests of a conversation are given the same slot, though it is read,
\* used and written back under three locks: unless two of them overlapped
\* there, the slot was not usable when one came, or the conversation was
\* evicted (chat.rs 64-79, sessions.rs 39-63).
Affinity == \A c \in Convs \ excused : Cardinality(slots[c]) <= 1

Shared(parts) == {i \in DOMAIN parts : parts[i].is = "shared"}
InPlace(parts) == {i \in DOMAIN parts : ~parts[i].nested /\ parts[i].is # "shared"}

\* A request that goes out while no catalog came in between has no image left
\* that handoff can read if its model cannot see, and otherwise no image
\* described.  Whatever came in between, at most the configured number of
\* images outside tool results stay, the newest ones, unless in a chat request
\* all were described instead, or neither was done since a catalog came between
\* the two questions whether its model can see.  An image that handoff cannot
\* read goes to the model that cannot see (chat.rs 89-132, messages.rs 95-124,
\* vision.rs 70-99).
ImagesHandled ==
  \A t \in Tasks : At(t, "sent") =>
    LET parts == task[t].parts
        described == ImageParts(parts) = {}
        limited == cfg.maxImages > 0 => Cardinality(InPlace(parts)) <= cfg.maxImages
    IN /\ ~task[t].moved =>
            IF NeedsHandoff(task[t].model, cfg)
            THEN described /\ (Chat(t) => Shared(parts) = {})
            ELSE limited /\ \A i \in DOMAIN parts : parts[i].is \in {"image", "shared"}
       /\ limited \/ (Chat(t) /\ (described \/ task[t].moved))
       /\ Shared(parts) # {} => Cardinality(InPlace(parts)) = cfg.maxImages
       /\ \A i \in Shared(parts), j \in InPlace(parts) : i < j

\* Of as many images used last as the cache has room for, all are still
\* described but those found expired, which leave their room to nobody else; so
\* long as none was described twice at a time, since set() makes room even for
\* a digest it holds (handoff_cache.rs 35-59).
CacheKeepsRecent ==
  /\ Len(lru) <= CacheSize
  /\ ~doubled => \A d \in Firsts(used, CacheSize) \ lapsed : InCache(d)
=============================================================================
