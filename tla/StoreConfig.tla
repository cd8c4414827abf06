----------------------------- MODULE StoreConfig -----------------------------
(***************************************************************************)
(* Credentials, the object store and what is kept in it: AppConfigService  *)
(* and its cache, PATCH /api/admin/settings, MinioStorageService with its  *)
(* cached client and its bucketReady flag, the upload of a drawing and of  *)
(* a logo. Everything is one Node process, so a step is what runs from one *)
(* await to the next, and a settings save falls between any two of them.   *)
(*                                                                         *)
(* The store has two settings, an endpoint and a credential. The other     *)
(* names of a credential are in no catalogue, so no save changes them, and *)
(* all that matters of them is whether the environment supplies them.      *)
(* A rejected statement has no effect.                                     *)
(*                                                                         *)
(* Definitions no action refers to are mutated forms of their neighbours.  *)
(***************************************************************************)
EXTENDS Naturals, Sequences, Functions

CONSTANTS
    Endpoints,    \* object stores an admin may point to
    Credentials,  \* credentials an admin may enter
    Pairs,        \* those of the form access:secret
    Environments, \* environments the process may be started in
    Objects,      \* keys of stored objects, fresh for each upload
    Requests,     \* slots for concurrent HTTP handlers
    MaxFaults,    \* bound: failed calls and restarts
    None          \* absence of a value

ASSUME StoreConstants ==
    /\ Pairs \subseteq Credentials
    /\ MaxFaults \in Nat
    /\ None \notin Endpoints \union Credentials \union Objects
    /\ \A e \in Environments : e.endpoint \in Endpoints \union {None}
                            /\ e.credential \in Credentials \union {None}

VARIABLES
    env,         \* the process environment; placeholders count as absent
    rows,        \* SystemSetting rows
    cache,       \* AppConfigService.cache
    client,      \* MinioStorageService.client
    bucketReady, \* MinioStorageService.bucketReady
    buckets,     \* the stores that hold our bucket
    objects,     \* what is stored where
    drawings,    \* Drawing rows: the upload, and the objectKey if its file was stored
    logo,        \* BusinessConfig.logoObjectKey
    req,         \* the handler each slot runs, and its local variables
    cut,         \* history: a save failed after its first row, and none has finished since
    undropped,   \* history: settings whose row was written by a save that failed before it dropped the cached value
    faults       \* failed calls and restarts so far

vars == <<env, rows, cache, client, bucketReady, buckets, objects, drawings, logo, req, cut, undropped, faults>>
storeVars == <<buckets, objects, drawings, logo>>

Keys   == {"endpoint", "credential"}
Values == Endpoints \union Credentials \union {None}

\* `late` and `unread` are history, not data: what was read before a save had dropped the cached
\* value, or reset the client, and was assigned after; and a client whose credential could not be read.
Entry  == [value : Values, late : BOOLEAN]
Client == [endpoint : Values, credential : Values, late : BOOLEAN, unread : BOOLEAN]
Ready  == [set : BOOLEAN, late : BOOLEAN]

Request == [pc : {"idle", "lookup", "fill", "ensure", "make", "ready", "put", "insert", "upsert", "drop"},
            kind : {"save", "list", "upload", "logo", "read"},
            key : Keys, value : Values, missed : BOOLEAN, late : BOOLEAN,
            endpoint : Values, object : Objects \union {None}, stored : BOOLEAN,
            entries : Seq([key : Keys, value : Values]), written : BOOLEAN]

Handler(label, kind, entries, o) ==
    [pc |-> label, kind |-> kind, key |-> "endpoint", value |-> None, missed |-> FALSE, late |-> FALSE,
     endpoint |-> None, object |-> o, stored |-> FALSE, entries |-> entries, written |-> FALSE]

Idle == Handler("idle", "read", <<>>, None)

At(r, label)   == req[r].pc = label
Goto(r, label) == req' = [req EXCEPT ![r].pc = label]
Finish(r)      == req' = [req EXCEPT ![r] = Idle]

\* What a look-up should find: the environment first, then the row.
Configured(k) == IF env[k] # None THEN env[k] ELSE rows[k]

\* The credential gives both halves of a login, or the environment gives the rest.
GivesLogin(c) == c \in Pairs \/ (env.user /\ (c # None \/ env.password))

Init ==
    /\ env \in Environments
    /\ rows = [k \in Keys |-> None]
    /\ cache = <<>>
    /\ client = None
    /\ bucketReady = [set |-> FALSE, late |-> FALSE]
    /\ buckets = {}
    /\ objects = {}
    /\ drawings = {}
    /\ logo = None
    /\ req = [r \in Requests |-> Idle]
    /\ cut = FALSE
    /\ undropped = {}
    /\ faults = 0

-----------------------------------------------------------------------------
(* AppConfigService.resolveConfig, and what its callers do with the value *)

FailWithoutClient(r) == Finish(r)

\* Without a client the upload goes on to its row, with no object to name.
WithoutClient(r) ==
    req' = [req EXCEPT ![r] = IF @.kind = "upload" THEN [@ EXCEPT !.pc = "insert"] ELSE Idle]

\* ensureBucket asks the store only while bucketReady is unset.
Ensured == IF bucketReady.set THEN "put" ELSE "ensure"

\* getClient assigns what it has built; list and getClient look up one key after the other.
Resolved(r, v, late, unread) ==
    LET q == req[r] IN
    CASE q.key = "endpoint" /\ (q.kind = "list" \/ v # None) ->
            /\ req' = [req EXCEPT ![r] = [q EXCEPT !.pc = "lookup", !.key = "credential", !.value = None,
                                          !.missed = FALSE, !.late = late, !.endpoint = v]]
            /\ UNCHANGED client
      [] q.key = "credential" /\ q.kind # "list" /\ GivesLogin(v) ->
            /\ client' = [endpoint |-> q.endpoint, credential |-> v, late |-> q.late \/ late,
                          unread |-> unread]
            /\ req' = [req EXCEPT ![r] = IF q.kind = "read" THEN Idle
                                         ELSE [q EXCEPT !.pc = Ensured, !.late = q.late \/ late,
                                                        !.missed = FALSE, !.value = None]]
      [] OTHER -> WithoutClient(r) /\ UNCHANGED client

Cached(r) ==
    /\ At(r, "lookup")
    /\ req[r].key \in DOMAIN cache
    /\ Resolved(r, cache[req[r].key].value, cache[req[r].key].late, FALSE)
    /\ UNCHANGED <<env, rows, cache, bucketReady, storeVars, cut, undropped, faults>>

FromEnvironment(r) ==
    /\ At(r, "lookup")
    /\ req[r].key \notin DOMAIN cache
    /\ env[req[r].key] # None
    /\ cache' = [k \in DOMAIN cache \union {req[r].key} |->
                   IF k = req[r].key THEN [value |-> env[k], late |-> FALSE] ELSE cache[k]]
    /\ Resolved(r, env[req[r].key], FALSE, FALSE)
    /\ UNCHANGED <<env, rows, bucketReady, storeVars, cut, undropped, faults>>

ReadRow(r) ==
    /\ At(r, "lookup")
    /\ req[r].key \notin DOMAIN cache
    /\ env[req[r].key] = None
    /\ req' = [req EXCEPT ![r].pc = "fill", ![r].value = rows[req[r].key]]
    /\ UNCHANGED <<env, rows, cache, client, bucketReady, storeVars, cut, undropped, faults>>

\* The row's value is cached when the query's answer is processed, whatever was saved meanwhile.
Fill(r) ==
    /\ At(r, "fill")
    /\ cache' = [k \in DOMAIN cache \union {req[r].key} |->
                   IF k = req[r].key THEN [value |-> req[r].value, late |-> req[r].missed] ELSE cache[k]]
    /\ Resolved(r, req[r].value, req[r].missed, FALSE)
    /\ UNCHANGED <<env, rows, bucketReady, storeVars, cut, undropped, faults>>

LookUpFailsForGood(r) ==
    /\ At(r, "fill")
    /\ faults < MaxFaults
    /\ faults' = faults + 1
    /\ cache' = [k \in DOMAIN cache \union {req[r].key} |->
                   IF k = req[r].key THEN [value |-> None, late |-> FALSE] ELSE cache[k]]
    /\ Resolved(r, None, FALSE, TRUE)
    /\ UNCHANGED <<env, rows, bucketReady, storeVars, cut, undropped>>

\* A query that fails yields null and caches nothing.
LookUpFails(r) ==
    /\ At(r, "fill")
    /\ faults < MaxFaults
    /\ faults' = faults + 1
    /\ Resolved(r, None, FALSE, TRUE)
    /\ UNCHANGED <<env, rows, cache, bucketReady, storeVars, cut, undropped>>

-----------------------------------------------------------------------------
(* PATCH /api/admin/settings *)

\* Unknown keys and blank values are dropped; what is left is written in order.
StartSave(r, entries) ==
    /\ At(r, "idle")
    /\ entries # <<>>
    /\ req' = [req EXCEPT ![r] = Handler("upsert", "save", entries, None)]
    /\ UNCHANGED <<env, rows, cache, client, bucketReady, storeVars, cut, undropped, faults>>

Upsert(r) ==
    LET e == Head(req[r].entries) IN
    /\ At(r, "upsert")
    /\ rows' = [rows EXCEPT ![e.key] = e.value]
    /\ req' = [req EXCEPT ![r].pc = "drop", ![r].written = TRUE]
    /\ UNCHANGED <<env, cache, client, bucketReady, storeVars, cut, undropped, faults>>

\* A handler whose look-up of key k has been answered and not yet processed.
Missing(k, q) == IF q.pc = "fill" /\ q.key = k THEN [q EXCEPT !.missed = TRUE] ELSE q

\* A handler that holds an endpoint or a client from before the reset.
Overtaken(q) ==
    IF \/ q.pc \in {"lookup", "fill"} /\ q.key = "credential"
       \/ q.pc \in {"ensure", "make", "ready"}
    THEN [q EXCEPT !.late = TRUE] ELSE q

DropEntry(r) ==
    LET k == Head(req[r].entries).key IN
    /\ At(r, "drop")
    /\ Len(req[r].entries) > 1
    /\ cache' = Restrict(cache, DOMAIN cache \ {k})
    /\ req' = [s \in Requests |->
                 IF s = r THEN [req[r] EXCEPT !.pc = "upsert", !.entries = Tail(req[r].entries)] ELSE Missing(k, req[s])]
    /\ undropped' = undropped \ {k}
    /\ UNCHANGED <<env, rows, client, bucketReady, storeVars, cut, faults>>

Listed(r, k) == [s \in Requests |-> IF s = r THEN Handler("lookup", "list", <<>>, None)
                                     ELSE Overtaken(Missing(k, req[s]))]

FinishSaveWithoutReset(r) ==
    LET k == Head(req[r].entries).key IN
    /\ At(r, "drop")
    /\ Len(req[r].entries) = 1
    /\ cache' = Restrict(cache, DOMAIN cache \ {k})
    /\ req' = Listed(r, k)
    /\ cut' = FALSE
    /\ undropped' = undropped \ {k}
    /\ UNCHANGED <<env, rows, client, bucketReady, storeVars, faults>>

FinishSaveKeepingReady(r) ==
    LET k == Head(req[r].entries).key IN
    /\ At(r, "drop")
    /\ Len(req[r].entries) = 1
    /\ cache' = Restrict(cache, DOMAIN cache \ {k})
    /\ client' = None
    /\ req' = Listed(r, k)
    /\ cut' = FALSE
    /\ undropped' = undropped \ {k}
    /\ UNCHANGED <<env, rows, bucketReady, storeVars, faults>>

\* After the last entry the storage client is reset and the answer is the new list.
FinishSave(r) ==
    LET k == Head(req[r].entries).key IN
    /\ At(r, "drop")
    /\ Len(req[r].entries) = 1
    /\ cache' = Restrict(cache, DOMAIN cache \ {k})
    /\ client' = None
    /\ bucketReady' = [set |-> FALSE, late |-> FALSE]
    /\ cut' = FALSE
    /\ undropped' = undropped \ {k}
    /\ req' = Listed(r, k)
    /\ UNCHANGED <<env, rows, storeVars, faults>>

\* GET /api/admin/settings
StartList(r) ==
    /\ At(r, "idle")
    /\ req' = [req EXCEPT ![r] = Handler("lookup", "list", <<>>, None)]
    /\ UNCHANGED <<env, rows, cache, client, bucketReady, storeVars, cut, undropped, faults>>

-----------------------------------------------------------------------------
(* MinioStorageService.putObject, and the two uploads *)

Used == {q.object : q \in Range(req)} \union {d.upload : d \in drawings} \union {logo}
        \union {o[2] : o \in objects}

\* A drawing that has passed its checks, or a logo of an accepted type: getClient
\* gives the cached client or starts to build one. "read" stands for what only asks
\* for the client: the logo's stream, a presigned link, the health probe.
Start(r, kind, o) ==
    /\ At(r, "idle")
    /\ (kind = "read") = (o = None)
    /\ o \notin Used \ {None}
    /\ kind = "read" => client = None
    /\ req' = [req EXCEPT ![r] =
         IF client = None THEN Handler("lookup", kind, <<>>, o)
         ELSE [Handler(Ensured, kind, <<>>, o) EXCEPT !.endpoint = client.endpoint, !.late = client.late]]
    /\ UNCHANGED <<env, rows, cache, client, bucketReady, storeVars, cut, undropped, faults>>

BucketExists(r) ==
    /\ At(r, "ensure")
    /\ Goto(r, IF req[r].endpoint \in buckets THEN "ready" ELSE "make")
    /\ UNCHANGED <<env, rows, cache, client, bucketReady, storeVars, cut, undropped, faults>>

\* A bucket that another upload has made meanwhile is refused: see PutFails.
MakeBucket(r) ==
    /\ At(r, "make")
    /\ req[r].endpoint \notin buckets
    /\ buckets' = buckets \union {req[r].endpoint}
    /\ Goto(r, "ready")
    /\ UNCHANGED <<env, rows, cache, client, bucketReady, objects, drawings, logo, cut, undropped, faults>>

SetReady(r) ==
    /\ At(r, "ready")
    /\ bucketReady' = [set |-> TRUE, late |-> req[r].late]
    /\ Goto(r, "put")
    /\ UNCHANGED <<env, rows, cache, client, storeVars, cut, undropped, faults>>

PutObject(r) ==
    /\ At(r, "put")
    /\ req[r].endpoint \in buckets
    /\ objects' = objects \union {<<req[r].endpoint, req[r].object>>}
    /\ req' = [req EXCEPT ![r].pc = "insert", ![r].stored = TRUE]
    /\ UNCHANGED <<env, rows, cache, client, bucketReady, buckets, drawings, logo, cut, undropped, faults>>

\* The store refuses, is away or its answer is lost: a drawing is kept without its file, a logo
\* is an error. The object may be stored all the same.
PutFails(r) ==
    /\ req[r].pc \in {"ensure", "make", "ready", "put"}
    /\ WithoutClient(r)
    /\ \/ UNCHANGED objects
       \/ /\ At(r, "put") /\ req[r].endpoint \in buckets
          /\ objects' = objects \union {<<req[r].endpoint, req[r].object>>}
    /\ UNCHANGED <<env, rows, cache, client, bucketReady, buckets, drawings, logo, cut, undropped, faults>>

InsertDrawing(r) ==
    /\ At(r, "insert")
    /\ req[r].kind = "upload"
    /\ drawings' = drawings \union {[upload |-> req[r].object,
                                     objectKey |-> IF req[r].stored THEN req[r].object ELSE None]}
    /\ Finish(r)
    /\ UNCHANGED <<env, rows, cache, client, bucketReady, buckets, objects, logo, cut, undropped, faults>>

SaveLogo(r) ==
    /\ At(r, "insert")
    /\ req[r].kind = "logo"
    /\ logo' = req[r].object
    /\ Finish(r)
    /\ UNCHANGED <<env, rows, cache, client, bucketReady, buckets, objects, drawings, cut, undropped, faults>>

-----------------------------------------------------------------------------

\* A write is rejected, or its answer is lost: the handler ends with a 500, a save in the middle
\* of its entries, at "drop" with a row that was written and a value that stays cached.
Abort(r) ==
    /\ req[r].pc \in {"upsert", "drop", "insert"}
    /\ faults < MaxFaults
    /\ faults' = faults + 1
    /\ cut' = (cut \/ req[r].written)
    /\ undropped' = undropped \union (IF At(r, "drop") THEN {Head(req[r].entries).key} ELSE {})
    /\ Finish(r)
    /\ UNCHANGED <<env, rows, cache, client, bucketReady, storeVars>>

Restart ==
    /\ faults < MaxFaults
    /\ faults' = faults + 1
    /\ cache' = <<>>
    /\ client' = None
    /\ bucketReady' = [set |-> FALSE, late |-> FALSE]
    /\ req' = [r \in Requests |-> Idle]
    /\ cut' = FALSE
    /\ undropped' = {}
    /\ UNCHANGED <<env, rows, storeVars>>

Saves == {<<[key |-> "endpoint", value |-> e]>> : e \in Endpoints}
         \union {<<[key |-> "credential", value |-> c]>> : c \in Credentials}
         \union {<<[key |-> "endpoint", value |-> e], [key |-> "credential", value |-> c]>> :
                    e \in Endpoints, c \in Credentials}

Next ==
    \/ Restart
    \/ \E r \in Requests :
         \/ StartList(r) \/ (\E entries \in Saves : StartSave(r, entries))
         \/ \E kind \in {"upload", "logo", "read"}, o \in Objects \union {None} : Start(r, kind, o)
         \/ Cached(r) \/ FromEnvironment(r) \/ ReadRow(r) \/ Fill(r) \/ LookUpFails(r)
         \/ Upsert(r) \/ DropEntry(r) \/ FinishSave(r)
         \/ BucketExists(r) \/ MakeBucket(r) \/ SetReady(r) \/ PutObject(r) \/ PutFails(r)
         \/ InsertDrawing(r) \/ SaveLogo(r) \/ Abort(r)

Spec == Init /\ [][Next]_vars

-----------------------------------------------------------------------------
(* Properties *)

Saving == \E r \in Requests : req[r].pc \in {"upsert", "drop"} /\ req[r].written

TypeOK ==
    /\ env \in Environments
    /\ rows \in [Keys -> Values]
    /\ DOMAIN cache \subseteq Keys
    /\ \A k \in DOMAIN cache : cache[k] \in Entry
    /\ client \in Client \union {None}
    /\ bucketReady \in Ready
    /\ req \in [Requests -> Request]
    /\ cut \in BOOLEAN
    /\ undropped \subseteq Keys
    /\ faults \in 0..MaxFaults

\* A cached credential is the configured one, unless a save has written its row and
\* not yet dropped it, a save has written it and failed before it could, or the look-up that
\* cached it was answered before a save's row and processed after that save had dropped the old
\* value. AppConfigService promises that a newly entered key takes effect at once; these are the
\* exceptions.
CacheIsCurrent ==
    \A k \in DOMAIN cache :
        \/ cache[k].value = Configured(k)
        \/ cache[k].late \/ k \in undropped
        \/ \E r \in Requests : At(r, "drop") /\ Head(req[r].entries).key = k

\* The storage client was built from the configured endpoint and credential, unless a
\* save is under way or was cut short, the client was assigned after a reset by a
\* handler that had begun before it, or it was built from a value that CacheIsCurrent excepts. A
\* client that was built when the credential could not be read has none of its own, and keeps to
\* the user and password of the environment, until the next save or restart.
ClientIsCurrent ==
    client # None =>
        \/ /\ client.endpoint = Configured("endpoint") \/ "endpoint" \in undropped
           /\ \/ client.credential = Configured("credential") \/ "credential" \in undropped
              \/ client.unread /\ client.credential = None
        \/ client.late \/ cut \/ Saving

\* When bucketReady spares the check, the client's store has our bucket, with the same
\* exceptions: otherwise every upload to it fails until the next save or restart.
BucketIsThere ==
    bucketReady.set /\ client # None =>
        \/ client.endpoint \in buckets
        \/ bucketReady.late \/ client.late \/ cut \/ Saving \/ "endpoint" \in undropped

\* An accepted upload ends with its Drawing row whatever happens to the object store:
\* only a failed insert or a restart loses it.
NoUploadLost ==
    [][\A r \in Requests :
         req[r].kind = "upload" /\ req[r] # Idle /\ req'[r] = Idle =>
            \/ \E d \in drawings' : d.upload = req[r].object
            \/ faults' > faults]_vars
=============================================================================
