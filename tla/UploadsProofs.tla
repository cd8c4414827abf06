---------------------------- MODULE UploadsProofs ---------------------------
(***************************************************************************)
(* The server's side of a drawing, for every value of the constants. What  *)
(* the credential cache, the storage client and bucketReady may hold while *)
(* saves and uploads run, and that an accepted upload is not lost. What is *)
(* read from the file: the length that is priced is the length of the      *)
(* path, entity by entity, for every drawing on the grid. And what the     *)
(* part then costs: sheets, spacings, margins, rates and quantities of any *)
(* size.                                                                   *)
(***************************************************************************)
EXTENDS StoreConfig, Dxf, Estimate, SummationProofs

-----------------------------------------------------------------------------
(***************************************************************************)
(* Where the file goes: credentials, client and bucket                     *)
(***************************************************************************)


\* A save has written its row of key k and has not dropped the cached value: it is about to, or it
\* failed before it could.
Behind(k) == k \in undropped \/ \E r \in Requests : At(r, "drop") /\ Head(req[r].entries).key = k

\* The endpoint a handler carries is the configured one, or is excused.
HoldsEndpoint(q) == q.endpoint = Configured("endpoint") \/ q.late \/ cut \/ Saving \/ "endpoint" \in undropped

HandlerOK(q) ==
    /\ q.pc = "idle" => q = Idle
    /\ q.pc = "fill" =>
          env[q.key] = None /\ (q.value = rows[q.key] \/ q.missed \/ Behind(q.key))
    /\ q.pc \in {"lookup", "fill"} /\ q.key = "credential" /\ q.kind # "list" => HoldsEndpoint(q)
    /\ q.pc \in {"ensure", "make", "ready"} => HoldsEndpoint(q)
    /\ q.pc = "ready" => q.endpoint \in buckets
    /\ q.pc \in {"upsert", "drop"} => q.entries # <<>>
    /\ q.pc = "drop" => q.written

\* bucketReady is about the configured store.
ReadyIsCurrent ==
    bucketReady.set => \/ Configured("endpoint") \in buckets
                       \/ bucketReady.late \/ cut \/ Saving \/ "endpoint" \in undropped

StoreInv ==
    /\ TypeOK
    /\ \A r \in Requests : HandlerOK(req[r])
    /\ CacheIsCurrent
    /\ ClientIsCurrent
    /\ ReadyIsCurrent
-----------------------------------------------------------------------------
(* Steps of one handler *)

\* The records a handler may be: each step's new value is one of them.
LEMMA RequestFields ==
    \A q \in Request :
        /\ q.pc \in {"idle", "lookup", "fill", "ensure", "make", "ready", "put", "insert", "upsert", "drop"}
        /\ q.kind \in {"save", "list", "upload", "logo", "read"}
        /\ q.key \in Keys /\ q.value \in Values /\ q.missed \in BOOLEAN /\ q.late \in BOOLEAN
        /\ q.endpoint \in Values /\ q.object \in Objects \union {None} /\ q.stored \in BOOLEAN
        /\ q.entries \in Seq([key : Keys, value : Values]) /\ q.written \in BOOLEAN
BY DEF Request

LEMMA HandlerIsRequest ==
    ASSUME NEW label \in {"lookup", "ensure", "put", "upsert", "idle"},
           NEW kind \in {"save", "list", "upload", "logo", "read"},
           NEW entries \in Seq([key : Keys, value : Values]),
           NEW o \in Objects \union {None}
    PROVE  Handler(label, kind, entries, o) \in Request
BY DEF Handler, Request, Keys, Values

LEMMA IdleIsRequest == Idle \in Request
<1>1. <<>> \in Seq([key : Keys, value : Values])
    OBVIOUS
<1> QED BY <1>1, HandlerIsRequest DEF Idle

\* What stays when handler r takes a step that is not a save's, or starts one.
LEMMA Steady ==
    ASSUME StoreInv, NEW r \in Requests, req' \in [Requests -> Request],
           \A s \in Requests \ {r} : req'[s] = req[s],
           req[r].pc \notin {"upsert", "drop"},
           req'[r].pc # "drop", req'[r].pc = "upsert" => ~req'[r].written,
           UNCHANGED <<env, rows, cut, undropped>>, buckets \subseteq buckets'
    PROVE  /\ Saving' <=> Saving
           /\ \A k : Behind(k)' <=> Behind(k)
           /\ \A k : Configured(k)' = Configured(k)
           /\ \A s \in Requests \ {r} : HandlerOK(req[s])'
<1>1. Saving' <=> Saving
    BY DEF Saving
<1>2. \A k : Behind(k)' <=> Behind(k)
    BY DEF Behind, At
<1>3. \A k : Configured(k)' = Configured(k)
    BY DEF Configured
<1>4. ASSUME NEW s \in Requests \ {r} PROVE HandlerOK(req[s])'
    <2>1. HandlerOK(req[s])
        BY DEF StoreInv
    <2> QED BY <2>1, <1>1, <1>2, <1>3 DEF HandlerOK, HoldsEndpoint
<1> QED BY <1>1, <1>2, <1>3, <1>4

\* A handler's step that touches neither the cache, the client nor bucketReady.
LEMMA QuietStep ==
    ASSUME StoreInv, NEW r \in Requests, NEW q \in Request, req' = [req EXCEPT ![r] = q],
           req[r].pc \notin {"upsert", "drop"},
           q.pc # "drop", q.pc = "upsert" => ~q.written,
           UNCHANGED <<env, rows, cache, client, bucketReady, cut, undropped>>, buckets \subseteq buckets',
           faults' \in 0..MaxFaults, HandlerOK(req[r])'
    PROVE  StoreInv'
<1>1. req' \in [Requests -> Request] /\ req'[r] = q
      /\ \A s \in Requests \ {r} : req'[s] = req[s]
    BY DEF StoreInv, TypeOK
<1>2. /\ Saving' <=> Saving
      /\ \A k : Behind(k)' <=> Behind(k)
      /\ \A k : Configured(k)' = Configured(k)
      /\ \A s \in Requests \ {r} : HandlerOK(req[s])'
    BY <1>1, Steady
<1>3. TypeOK'
    BY <1>1 DEF StoreInv, TypeOK
<1>4. CacheIsCurrent'
    BY <1>2 DEF StoreInv, CacheIsCurrent, Behind
<1>5. ClientIsCurrent'
    BY <1>2 DEF StoreInv, ClientIsCurrent
<1>6. ReadyIsCurrent'
    BY <1>2 DEF StoreInv, ReadyIsCurrent
<1> QED BY <1>2, <1>3, <1>4, <1>5, <1>6 DEF StoreInv

\* An ended handler owes nothing.
LEMMA IdleOK == ASSUME NEW r \in Requests, req'[r] = Idle PROVE HandlerOK(req[r])'
BY DEF HandlerOK, Idle, Handler

\* A handler that waits for an answer about its object or its row owes nothing either.
LEMMA PutOK ==
    ASSUME NEW r \in Requests, req'[r].pc \in {"put", "insert"} PROVE HandlerOK(req[r])'
BY DEF HandlerOK

\* Without a client the handler ends, or goes on to its row.
LEMMA WithoutClientStep ==
    ASSUME StoreInv, NEW r \in Requests, WithoutClient(r)
    PROVE  \E q \in Request : /\ req' = [req EXCEPT ![r] = q]
                              /\ q = Idle \/ (q.pc = "insert" /\ req[r].kind = "upload")
<1>1. req \in [Requests -> Request]
    BY DEF StoreInv, TypeOK
<1>2. CASE req[r].kind = "upload"
    <2> DEFINE q == [req[r] EXCEPT !.pc = "insert"]
    <2>1. req' = [req EXCEPT ![r] = q]
        BY <1>1, <1>2 DEF WithoutClient
    <2>2. q \in Request /\ q.pc = "insert"
        BY <1>1 DEF Request
    <2> QED BY <1>2, <2>1, <2>2
<1>3. CASE req[r].kind # "upload"
    <2>1. req' = [req EXCEPT ![r] = Idle]
        BY <1>1, <1>3 DEF WithoutClient
    <2> QED BY <2>1, IdleIsRequest
<1> QED BY <1>2, <1>3

-----------------------------------------------------------------------------
(* Look-ups *)

\* What a look-up's answer leads to, when the value is the configured one or is excused and
\* the cache is left as it should be.
LEMMA ResolvedInv ==
    ASSUME StoreInv, NEW r \in Requests, req[r].pc \in {"lookup", "fill"},
           NEW v \in Values, NEW late \in BOOLEAN, NEW unread \in BOOLEAN,
           Resolved(r, v, late, unread),
           \/ v = Configured(req[r].key) \/ late \/ Saving \/ req[r].key \in undropped
           \/ unread /\ v = None,
           UNCHANGED <<env, rows, bucketReady, storeVars, cut, undropped>>, faults' \in 0..MaxFaults,
           DOMAIN cache' \subseteq Keys, \A k \in DOMAIN cache' : cache'[k] \in Entry,
           \A k \in DOMAIN cache' : \/ cache'[k].value = Configured(k)
                                    \/ cache'[k].late
                                    \/ Behind(k)
    PROVE  StoreInv'
<1>0. req \in [Requests -> Request] /\ req[r] \in Request /\ buckets' = buckets
    BY DEF StoreInv, TypeOK, storeVars
<1>1. SUFFICES ASSUME NEW q \in Request, req' = [req EXCEPT ![r] = q],
                      q.pc \notin {"upsert", "drop"},
                      HandlerOK(req[r])',
                      client' \in Client \union {None},
                      client' = client \/ ClientIsCurrent'
               PROVE  StoreInv'
    <2>1. CASE req[r].key = "endpoint" /\ (req[r].kind = "list" \/ v # None)
        <3> DEFINE q == [req[r] EXCEPT !.pc = "lookup", !.key = "credential", !.value = None,
                                       !.missed = FALSE, !.late = late, !.endpoint = v]
        <3>1. req' = [req EXCEPT ![r] = q] /\ UNCHANGED client
            BY <2>1 DEF Resolved
        <3>2. q \in Request
            BY <1>0 DEF Request, Keys, Values
        <3>3. q.pc = "lookup" /\ q.late = late /\ q.endpoint = v
            BY <1>0 DEF Request
        <3>4. req'[r] = q /\ req' \in [Requests -> Request] /\ \A s \in Requests \ {r} : req'[s] = req[s]
            BY <1>0, <3>1, <3>2
        <3>5. (Saving' <=> Saving) /\ Configured("endpoint")' = Configured("endpoint")
            BY <1>0, <3>3, <3>4, Steady
        <3>6. HandlerOK(req[r])'
            BY <2>1, <3>3, <3>4, <3>5 DEF HandlerOK, HoldsEndpoint
        <3>7. client' \in Client \union {None}
            BY <3>1 DEF StoreInv, TypeOK
        <3> QED BY <1>1, <3>1, <3>2, <3>3, <3>6, <3>7
    <2>2. CASE req[r].key = "credential" /\ req[r].kind # "list" /\ GivesLogin(v)
        <3> DEFINE l == req[r].late \/ late
                   q == IF req[r].kind = "read" THEN Idle
                        ELSE [req[r] EXCEPT !.pc = Ensured, !.late = l, !.missed = FALSE,
                                            !.value = None]
        <3>1. /\ req' = [req EXCEPT ![r] = q]
              /\ client' = [endpoint |-> req[r].endpoint, credential |-> v, late |-> l,
                            unread |-> unread]
            <4>1. ~ (req[r].key = "endpoint" /\ (req[r].kind = "list" \/ v # None))
                BY <2>2
            <4>2. client' = [endpoint |-> req[r].endpoint, credential |-> v, late |-> l,
                            unread |-> unread]
                BY <2>2, <4>1, Zenon DEF Resolved
            <4>3. req' = [req EXCEPT ![r] = q]
                BY <2>2, <4>1, Zenon DEF Resolved
            <4> QED BY <4>2, <4>3
        <3>2. HoldsEndpoint(req[r])
            BY <2>2 DEF StoreInv, HandlerOK
        <3>3. Ensured \in {"put", "ensure"} /\ l \in BOOLEAN
            BY DEF Ensured
        <3> HIDE DEF l
        <3>4. q \in Request
            <4>1. None \in Values
                BY DEF Values
            <4>2. [req[r] EXCEPT !.pc = Ensured, !.late = l, !.missed = FALSE, !.value = None] \in Request
                BY <1>0, <3>3, <4>1 DEF Request
            <4> QED BY <4>2, IdleIsRequest
        <3>5. /\ q.pc \in {"idle", "put", "ensure"}
              /\ q.pc = "idle" => q = Idle
              /\ q.pc = "ensure" => q.endpoint = req[r].endpoint /\ q.late = (req[r].late \/ late)
            BY <1>0, <3>3 DEF Request, Idle, Handler, l
        <3> HIDE DEF q
        <3>6. req'[r] = q /\ req' \in [Requests -> Request] /\ \A s \in Requests \ {r} : req'[s] = req[s]
            BY <1>0, <3>1, <3>4
        <3>7. (Saving' <=> Saving) /\ \A k : Configured(k)' = Configured(k)
            BY <1>0, <3>5, <3>6, Steady
        <3>8. HandlerOK(req[r])'
            BY <3>2, <3>5, <3>6, <3>7 DEF HandlerOK, HoldsEndpoint
        <3>9. client' \in Client
            BY <1>0, <3>1, <3>3, RequestFields DEF Client
        <3>10. ClientIsCurrent'
            BY <2>2, <3>1, <3>2, <3>7 DEF ClientIsCurrent, HoldsEndpoint, l
        <3> QED BY <1>1, <3>1, <3>4, <3>5, <3>8, <3>9, <3>10
    <2>3. CASE WithoutClient(r) /\ UNCHANGED client
        <3>1. PICK q \in Request : /\ req' = [req EXCEPT ![r] = q]
                                   /\ q = Idle \/ (q.pc = "insert" /\ req[r].kind = "upload")
            BY <2>3, WithoutClientStep
        <3>2. req'[r] = q
            BY <1>0, <3>1
        <3>3. q.pc \notin {"upsert", "drop"}
            BY <3>1 DEF Idle, Handler
        <3>5. HandlerOK(req[r])'
            <4>1. CASE q = Idle
                BY <3>2, <4>1, IdleOK
            <4>2. CASE q.pc = "insert"
                BY <3>2, <4>2, PutOK
            <4> QED BY <3>1, <4>1, <4>2
        <3>4. client' \in Client \union {None}
            BY <2>3 DEF StoreInv, TypeOK
        <3> QED BY <1>1, <2>3, <3>1, <3>3, <3>4, <3>5
    <2> QED BY <2>1, <2>2, <2>3 DEF Resolved
<1>2. req' \in [Requests -> Request] /\ req'[r] = q /\ \A s \in Requests \ {r} : req'[s] = req[s]
    BY <1>0, <1>1
<1>3. /\ Saving' <=> Saving
      /\ \A k : Behind(k)' <=> Behind(k)
      /\ \A k : Configured(k)' = Configured(k)
      /\ \A s \in Requests \ {r} : HandlerOK(req[s])'
    BY <1>0, <1>1, <1>2, Steady
<1>4. TypeOK'
    BY <1>1, <1>2 DEF StoreInv, TypeOK
<1>5. CacheIsCurrent'
    BY <1>3 DEF CacheIsCurrent, Behind
<1>6. ClientIsCurrent'
    BY <1>1, <1>3 DEF StoreInv, ClientIsCurrent
<1>7. ReadyIsCurrent'
    BY <1>0, <1>3 DEF StoreInv, ReadyIsCurrent
<1> QED BY <1>1, <1>3, <1>4, <1>5, <1>6, <1>7 DEF StoreInv

LEMMA CachedInv ==
    ASSUME StoreInv, NEW r \in Requests, Cached(r)
    PROVE  StoreInv'
<1> DEFINE entry == cache[req[r].key]
<1>1. entry \in Entry /\ entry.value \in Values /\ entry.late \in BOOLEAN
    BY DEF Cached, StoreInv, TypeOK, Entry
<1>2. \/ entry.value = Configured(req[r].key) \/ entry.late \/ Behind(req[r].key)
    BY DEF Cached, StoreInv, CacheIsCurrent, Behind
<1>3. Behind(req[r].key) => Saving \/ req[r].key \in undropped
    BY DEF Behind, Saving, StoreInv, HandlerOK, At
<1>4. req[r].pc \in {"lookup", "fill"} /\ faults' \in 0..MaxFaults /\ cache' = cache
    BY DEF Cached, At, StoreInv, TypeOK
<1>5. /\ DOMAIN cache' \subseteq Keys
      /\ \A k \in DOMAIN cache' : cache'[k] \in Entry
      /\ \A k \in DOMAIN cache' : cache'[k].value = Configured(k) \/ cache'[k].late \/ Behind(k)
    BY <1>4 DEF StoreInv, TypeOK, CacheIsCurrent, Behind
<1>6. /\ Resolved(r, entry.value, entry.late, FALSE)
      /\ UNCHANGED <<env, rows, bucketReady, storeVars, cut, undropped>>
    BY DEF Cached
<1> HIDE DEF entry
<1> QED BY <1>1, <1>2, <1>3, <1>4, <1>5, <1>6, ResolvedInv

\* A value that is added to the cache for the key that is looked up.
LEMMA AddedToCache ==
    ASSUME StoreInv, NEW j \in Keys, NEW v \in Values, NEW late \in BOOLEAN,
           v = Configured(j) \/ late \/ Behind(j),
           cache' = [k \in DOMAIN cache \union {j} |->
                       IF k = j THEN [value |-> v, late |-> late] ELSE cache[k]]
    PROVE  /\ DOMAIN cache' \subseteq Keys
           /\ \A k \in DOMAIN cache' : cache'[k] \in Entry
           /\ \A k \in DOMAIN cache' : cache'[k].value = Configured(k) \/ cache'[k].late \/ Behind(k)
<1>1. [value |-> v, late |-> late] \in Entry
    BY DEF Entry
<1> QED BY <1>1 DEF StoreInv, TypeOK, CacheIsCurrent, Behind

LEMMA FromEnvironmentInv ==
    ASSUME StoreInv, NEW r \in Requests, FromEnvironment(r)
    PROVE  StoreInv'
<1> DEFINE j == req[r].key
           v == env[j]
<1>1. j \in Keys /\ req[r].pc \in {"lookup", "fill"} /\ faults' \in 0..MaxFaults
    BY RequestFields DEF FromEnvironment, At, StoreInv, TypeOK
<1>2. v = Configured(j)
    BY DEF FromEnvironment, Configured
<1>3. v \in Values
    BY <1>1, StoreConstants DEF StoreInv, TypeOK, Keys, Values
<1>4. /\ Resolved(r, v, FALSE, FALSE)
      /\ UNCHANGED <<env, rows, bucketReady, storeVars, cut, undropped>>
      /\ cache' = [k \in DOMAIN cache \union {j} |->
                      IF k = j THEN [value |-> v, late |-> FALSE] ELSE cache[k]]
    BY DEF FromEnvironment
<1> HIDE DEF v
<1>5. /\ DOMAIN cache' \subseteq Keys
      /\ \A k \in DOMAIN cache' : cache'[k] \in Entry
      /\ \A k \in DOMAIN cache' : cache'[k].value = Configured(k) \/ cache'[k].late \/ Behind(k)
    BY <1>1, <1>2, <1>3, <1>4, AddedToCache
<1> QED BY <1>1, <1>2, <1>3, <1>4, <1>5, ResolvedInv

LEMMA ReadRowInv ==
    ASSUME StoreInv, NEW r \in Requests, ReadRow(r)
    PROVE  StoreInv'
<1> DEFINE q == [req[r] EXCEPT !.pc = "fill", !.value = rows[req[r].key]]
<1>1. req \in [Requests -> Request] /\ req[r].key \in Keys /\ rows[req[r].key] \in Values
    BY RequestFields DEF StoreInv, TypeOK
<1>2. req' = [req EXCEPT ![r] = q]
    BY <1>1 DEF ReadRow
<1>3. q \in Request
    BY <1>1 DEF Request
<1>4. /\ q.pc = "fill" /\ q.value = rows[req[r].key] /\ q.key = req[r].key
      /\ q.kind = req[r].kind /\ q.endpoint = req[r].endpoint /\ q.late = req[r].late
    BY <1>1 DEF Request
<1> HIDE DEF q
<1>5. req'[r] = q /\ req' \in [Requests -> Request] /\ \A s \in Requests \ {r} : req'[s] = req[s]
    BY <1>1, <1>2, <1>3
<1>6. (Saving' <=> Saving) /\ Configured("endpoint")' = Configured("endpoint")
    BY <1>4, <1>5, Steady DEF ReadRow, At, storeVars
<1>7. HandlerOK(req[r])'
    BY <1>4, <1>5, <1>6 DEF ReadRow, At, StoreInv, HandlerOK, HoldsEndpoint
<1> QED BY <1>2, <1>3, <1>4, <1>7, QuietStep DEF ReadRow, At, storeVars, StoreInv, TypeOK

LEMMA FillInv ==
    ASSUME StoreInv, NEW r \in Requests, Fill(r)
    PROVE  StoreInv'
<1> DEFINE j == req[r].key
           v == req[r].value
           late == req[r].missed
<1>1. /\ j \in Keys /\ v \in Values /\ late \in BOOLEAN
      /\ req[r].pc = "fill" /\ faults' \in 0..MaxFaults
    BY RequestFields DEF Fill, At, StoreInv, TypeOK
<1>2. v = Configured(j) \/ late \/ Behind(j)
    BY <1>1 DEF StoreInv, HandlerOK, Configured
<1>3. Behind(j) => Saving \/ j \in undropped
    BY DEF Behind, Saving, StoreInv, HandlerOK, At
<1>4. /\ Resolved(r, v, late, FALSE)
      /\ UNCHANGED <<env, rows, bucketReady, storeVars, cut, undropped>>
      /\ cache' = [k \in DOMAIN cache \union {j} |->
                      IF k = j THEN [value |-> v, late |-> late] ELSE cache[k]]
    BY DEF Fill
<1> HIDE DEF v, late
<1>5. /\ DOMAIN cache' \subseteq Keys
      /\ \A k \in DOMAIN cache' : cache'[k] \in Entry
      /\ \A k \in DOMAIN cache' : cache'[k].value = Configured(k) \/ cache'[k].late \/ Behind(k)
    BY <1>1, <1>2, <1>4, AddedToCache
<1> QED BY <1>1, <1>2, <1>3, <1>4, <1>5, ResolvedInv

LEMMA LookUpFailsInv ==
    ASSUME StoreInv, NEW r \in Requests, LookUpFails(r)
    PROVE  StoreInv'
<1>1. faults' \in 0..MaxFaults /\ req[r].pc \in {"lookup", "fill"} /\ None \in Values
    BY StoreConstants DEF LookUpFails, At, StoreInv, TypeOK, Values
<1>2. /\ DOMAIN cache' \subseteq Keys
      /\ \A k \in DOMAIN cache' : cache'[k] \in Entry
      /\ \A k \in DOMAIN cache' : cache'[k].value = Configured(k) \/ cache'[k].late \/ Behind(k)
    BY DEF LookUpFails, StoreInv, TypeOK, CacheIsCurrent, Behind
<1>3. /\ Resolved(r, None, FALSE, TRUE)
      /\ UNCHANGED <<env, rows, bucketReady, storeVars, cut, undropped>>
    BY DEF LookUpFails
<1> QED BY <1>1, <1>2, <1>3, ResolvedInv

-----------------------------------------------------------------------------
(* Saves *)

LEMMA SavesAreEntries ==
    \A entries \in Saves : entries \in Seq([key : Keys, value : Values]) /\ entries # <<>>
<1> DEFINE Pair == [key : Keys, value : Values]
<1>1. /\ \A e \in Endpoints : [key |-> "endpoint", value |-> e] \in Pair
      /\ \A c \in Credentials : [key |-> "credential", value |-> c] \in Pair
    BY DEF Keys, Values
<1>2. /\ \A e \in Pair : <<e>> \in Seq(Pair) /\ <<e>> # <<>>
      /\ \A d, e \in Pair : <<d, e>> \in Seq(Pair) /\ <<d, e>> # <<>>
    OBVIOUS
<1> HIDE DEF Pair
<1>3. ASSUME NEW entries \in Saves PROVE entries \in Seq(Pair) /\ entries # <<>>
    <2>1. CASE \E e \in Endpoints : entries = <<[key |-> "endpoint", value |-> e]>>
        BY <2>1, <1>1, <1>2
    <2>2. CASE \E c \in Credentials : entries = <<[key |-> "credential", value |-> c]>>
        BY <2>2, <1>1, <1>2
    <2>3. CASE \E e \in Endpoints, c \in Credentials :
                  entries = <<[key |-> "endpoint", value |-> e], [key |-> "credential", value |-> c]>>
        BY <2>3, <1>1, <1>2
    <2> QED BY <2>1, <2>2, <2>3 DEF Saves
<1> QED BY <1>3 DEF Pair

\* The entry a save is at.
LEMMA HeadEntry ==
    ASSUME StoreInv, NEW r \in Requests, req[r].pc \in {"upsert", "drop"}
    PROVE  /\ Head(req[r].entries) \in [key : Keys, value : Values]
           /\ Head(req[r].entries).key \in Keys /\ Head(req[r].entries).value \in Values
           /\ Tail(req[r].entries) \in Seq([key : Keys, value : Values])
<1> DEFINE Pair == [key : Keys, value : Values]
<1>1. req[r].entries \in Seq(Pair) /\ req[r].entries # <<>>
    BY RequestFields DEF StoreInv, TypeOK, HandlerOK
<1>2. \A e \in Pair : e.key \in Keys /\ e.value \in Values
    OBVIOUS
<1> HIDE DEF Pair
<1>3. Head(req[r].entries) \in Pair /\ Tail(req[r].entries) \in Seq(Pair)
    BY <1>1
<1> QED BY <1>2, <1>3 DEF Pair

LEMMA StartSaveInv ==
    ASSUME StoreInv, NEW r \in Requests, NEW entries \in Saves, StartSave(r, entries)
    PROVE  StoreInv'
<1> DEFINE q == Handler("upsert", "save", entries, None)
<1>1. q \in Request
    BY SavesAreEntries, HandlerIsRequest
<1>2. q.pc = "upsert" /\ q.entries = entries /\ ~q.written
    BY DEF Handler
<1>3. req' = [req EXCEPT ![r] = q]
    BY DEF StartSave
<1> HIDE DEF q
<1>4. req'[r] = q
    BY <1>3 DEF StoreInv, TypeOK
<1>5. HandlerOK(req[r])'
    BY <1>2, <1>4, SavesAreEntries DEF HandlerOK
<1> QED BY <1>1, <1>2, <1>3, <1>5, QuietStep DEF StartSave, At, storeVars, StoreInv, TypeOK

\* The row is written: from here until the cached value is dropped everything is excused.
LEMMA UpsertInv ==
    ASSUME StoreInv, NEW r \in Requests, Upsert(r)
    PROVE  StoreInv'
<1>0. PICK j \in Keys, w \in Values : Head(req[r].entries).key = j /\ Head(req[r].entries).value = w
    BY HeadEntry DEF Upsert, At
<1> DEFINE q == [req[r] EXCEPT !.pc = "drop", !.written = TRUE]
<1>1. /\ req \in [Requests -> Request] /\ req[r].pc = "upsert"
      /\ rows' = [rows EXCEPT ![j] = w] /\ rows \in [Keys -> Values]
      /\ UNCHANGED <<env, cache, client, bucketReady, buckets, cut, undropped, faults>>
    BY <1>0 DEF Upsert, At, StoreInv, TypeOK, storeVars
<1>2. q \in Request /\ q.pc = "drop" /\ q.written /\ q.entries = req[r].entries
    BY <1>1 DEF Request
<1>3. req' = [req EXCEPT ![r] = q]
    BY <1>1 DEF Upsert
<1> HIDE DEF q
<1>4. req'[r] = q /\ req' \in [Requests -> Request] /\ \A s \in Requests \ {r} : req'[s] = req[s]
    BY <1>1, <1>2, <1>3
<1>5. Saving'
    BY <1>2, <1>4 DEF Saving
<1>6. Behind(j)'
    BY <1>0, <1>2, <1>4 DEF Behind, At
<1>7. \A k : Behind(k) => Behind(k)'
    BY <1>1, <1>4 DEF Behind, At
<1>8. \A k \in Keys \ {j} : rows'[k] = rows[k] /\ Configured(k)' = Configured(k)
    BY <1>1 DEF Configured
<1>9. TypeOK'
    BY <1>1, <1>4 DEF StoreInv, TypeOK
<1>10. HandlerOK(req[r])'
    BY <1>1, <1>2, <1>4 DEF StoreInv, HandlerOK
<1>11. ASSUME NEW s \in Requests \ {r} PROVE HandlerOK(req[s])'
    <2>1. HandlerOK(req[s]) /\ req[s].key \in Keys /\ req'[s] = req[s]
        BY <1>1, <1>4, RequestFields DEF StoreInv
    <2>2. req[s].key = j \/ rows'[req[s].key] = rows[req[s].key]
        BY <2>1, <1>8
    <2> QED BY <2>1, <2>2, <1>1, <1>5, <1>6, <1>7 DEF HandlerOK, HoldsEndpoint
<1>12. CacheIsCurrent'
    <2> SUFFICES ASSUME NEW k \in DOMAIN cache
                 PROVE  cache[k].value = Configured(k)' \/ cache[k].late \/ Behind(k)'
        BY <1>1 DEF CacheIsCurrent, Behind
    <2>1. cache[k].value = Configured(k) \/ cache[k].late \/ Behind(k)
        BY DEF StoreInv, CacheIsCurrent, Behind
    <2>2. k \in Keys
        BY DEF StoreInv, TypeOK
    <2> QED BY <2>1, <2>2, <1>6, <1>7, <1>8
<1>13. ClientIsCurrent' /\ ReadyIsCurrent'
    BY <1>5 DEF ClientIsCurrent, ReadyIsCurrent
<1> QED BY <1>9, <1>10, <1>11, <1>12, <1>13 DEF StoreInv

\* A look-up under way when the cached value is dropped is marked, and nothing else about it changes.
LEMMA MissingIsRequest ==
    \A q \in Request, k \in Keys :
        /\ Missing(k, q) \in Request
        /\ Missing(k, q).pc = q.pc /\ Missing(k, q).key = q.key /\ Missing(k, q).kind = q.kind
        /\ Missing(k, q).value = q.value /\ Missing(k, q).endpoint = q.endpoint
        /\ Missing(k, q).late = q.late
        /\ Missing(k, q).missed = (q.missed \/ (q.pc = "fill" /\ q.key = k))
        /\ q.pc # "fill" => Missing(k, q) = q
<1> SUFFICES ASSUME NEW q \in Request, NEW k \in Keys
             PROVE  /\ Missing(k, q) \in Request
                    /\ Missing(k, q).pc = q.pc /\ Missing(k, q).key = q.key /\ Missing(k, q).kind = q.kind
                    /\ Missing(k, q).value = q.value /\ Missing(k, q).endpoint = q.endpoint
                    /\ Missing(k, q).late = q.late
                    /\ Missing(k, q).missed = (q.missed \/ (q.pc = "fill" /\ q.key = k))
                    /\ q.pc # "fill" => Missing(k, q) = q
    OBVIOUS
<1>1. CASE q.pc = "fill" /\ q.key = k
    <2>1. Missing(k, q) = [q EXCEPT !.missed = TRUE]
        BY <1>1 DEF Missing
    <2>2. Missing(k, q) \in Request
        BY <2>1 DEF Request
    <2> QED BY <1>1, <2>1, <2>2 DEF Request
<1>2. CASE ~ (q.pc = "fill" /\ q.key = k)
    <2>1. Missing(k, q) = q
        BY <1>2 DEF Missing
    <2> QED BY <1>2, <2>1, RequestFields
<1> QED BY <1>1, <1>2

LEMMA OvertakenIsRequest ==
    \A q \in Request :
        /\ Overtaken(q) \in Request
        /\ Overtaken(q).pc = q.pc /\ Overtaken(q).key = q.key /\ Overtaken(q).kind = q.kind
        /\ Overtaken(q).value = q.value /\ Overtaken(q).endpoint = q.endpoint
        /\ Overtaken(q).missed = q.missed
        /\ q.pc \in {"lookup", "fill"} /\ q.key = "credential" => Overtaken(q).late
        /\ q.pc \in {"ensure", "make", "ready"} => Overtaken(q).late
        /\ q.pc \notin {"lookup", "fill", "ensure", "make", "ready"} => Overtaken(q) = q
<1> SUFFICES ASSUME NEW q \in Request
             PROVE  /\ Overtaken(q) \in Request
                    /\ Overtaken(q).pc = q.pc /\ Overtaken(q).key = q.key /\ Overtaken(q).kind = q.kind
                    /\ Overtaken(q).value = q.value /\ Overtaken(q).endpoint = q.endpoint
                    /\ Overtaken(q).missed = q.missed
                    /\ q.pc \in {"lookup", "fill"} /\ q.key = "credential" => Overtaken(q).late
                    /\ q.pc \in {"ensure", "make", "ready"} => Overtaken(q).late
                    /\ q.pc \notin {"lookup", "fill", "ensure", "make", "ready"} => Overtaken(q) = q
    OBVIOUS
<1> DEFINE holds == \/ q.pc \in {"lookup", "fill"} /\ q.key = "credential"
                    \/ q.pc \in {"ensure", "make", "ready"}
<1>1. CASE holds
    <2>1. Overtaken(q) = [q EXCEPT !.late = TRUE]
        BY <1>1 DEF Overtaken
    <2>2. Overtaken(q) \in Request
        BY <2>1 DEF Request
    <2> QED BY <1>1, <2>1, <2>2 DEF Request
<1>2. CASE ~holds
    <2>1. Overtaken(q) = q
        BY <1>2 DEF Overtaken
    <2> QED BY <1>2, <2>1
<1> QED BY <1>1, <1>2

LEMMA Restricted ==
    ASSUME NEW k
    PROVE  LET kept == Restrict(cache, DOMAIN cache \ {k})
           IN  /\ DOMAIN kept = DOMAIN cache \ {k}
               /\ \A x \in DOMAIN kept : kept[x] = cache[x]
BY DEF Restrict

LEMMA DropEntryInv ==
    ASSUME StoreInv, NEW r \in Requests, DropEntry(r)
    PROVE  StoreInv'
<1> DEFINE k == Head(req[r].entries).key
           q == [req[r] EXCEPT !.pc = "upsert", !.entries = Tail(req[r].entries)]
<1>1. /\ req \in [Requests -> Request] /\ req[r].pc = "drop" /\ req[r].written /\ k \in Keys
      /\ Tail(req[r].entries) \in Seq([key : Keys, value : Values])
      /\ UNCHANGED <<env, rows, client, bucketReady, buckets, cut, faults>>
      /\ undropped' = undropped \ {k} /\ undropped \subseteq Keys
    BY HeadEntry DEF DropEntry, At, StoreInv, TypeOK, HandlerOK, storeVars
<1>2. Tail(req[r].entries) # <<>>
    <2>1. req[r].entries \in Seq([key : Keys, value : Values]) /\ Len(req[r].entries) > 1
        BY <1>1, RequestFields DEF DropEntry
    <2>2. Len(Tail(req[r].entries)) = Len(req[r].entries) - 1
        BY <2>1
    <2>3. Len(<<>>) = 0 /\ Len(req[r].entries) \in Nat
        BY <2>1
    <2> QED BY <2>1, <2>2, <2>3
<1>3. q \in Request /\ q.pc = "upsert" /\ q.written = req[r].written /\ q.entries = Tail(req[r].entries)
    BY <1>1 DEF Request
<1>4. req' = [s \in Requests |-> IF s = r THEN q ELSE Missing(k, req[s])]
    BY <1>1 DEF DropEntry
<1>5. DOMAIN cache' = DOMAIN cache \ {k} /\ \A x \in DOMAIN cache' : cache'[x] = cache[x]
    BY Restricted DEF DropEntry
<1> HIDE DEF q
<1>6. /\ req' \in [Requests -> Request] /\ req'[r] = q
      /\ \A s \in Requests \ {r} : req'[s] = Missing(k, req[s])
    BY <1>1, <1>3, <1>4, MissingIsRequest
<1>7. Saving'
    BY <1>1, <1>3, <1>6 DEF Saving
<1>8. \A x : x # k /\ Behind(x) => Behind(x)'
    <2> SUFFICES ASSUME NEW x, x # k, Behind(x) PROVE Behind(x)'
        OBVIOUS
    <2>1. CASE x \in undropped
        BY <2>1, <1>1 DEF Behind
    <2>2. ASSUME NEW s \in Requests, At(s, "drop"), Head(req[s].entries).key = x
          PROVE  Behind(x)'
        <3>1. s # r /\ req'[s] = req[s]
            BY <2>2, <1>1, <1>6, MissingIsRequest DEF At
        <3> QED BY <2>2, <3>1 DEF Behind, At
    <2> QED BY <2>1, <2>2 DEF Behind
<1> HIDE DEF k
<1>9. \A x : Configured(x)' = Configured(x)
    BY <1>1 DEF Configured
<1>10. TypeOK'
    BY <1>1, <1>5, <1>6 DEF StoreInv, TypeOK
<1>11. HandlerOK(req[r])'
    BY <1>1, <1>2, <1>3, <1>6 DEF HandlerOK
<1>12. ASSUME NEW s \in Requests \ {r} PROVE HandlerOK(req[s])'
    <2>1. HandlerOK(req[s]) /\ req[s] \in Request /\ req'[s] = Missing(k, req[s])
        BY <1>1, <1>6 DEF StoreInv
    <2>2. CASE req[s].pc = "fill"
        <3>1. /\ req'[s].pc = "fill" /\ req'[s].key = req[s].key /\ req'[s].value = req[s].value
              /\ req'[s].missed = (req[s].missed \/ req[s].key = k)
            BY <2>1, <2>2, <1>1, MissingIsRequest
        <3> QED BY <2>1, <2>2, <3>1, <1>1, <1>7, <1>8 DEF HandlerOK, HoldsEndpoint
    <2>3. CASE req[s].pc # "fill"
        <3>1. req'[s] = req[s]
            BY <2>1, <2>3, <1>1, MissingIsRequest
        <3> QED BY <2>1, <2>3, <3>1, <1>1, <1>7 DEF HandlerOK, HoldsEndpoint
    <2> QED BY <2>2, <2>3
<1>13. CacheIsCurrent'
    BY <1>5, <1>8, <1>9 DEF StoreInv, CacheIsCurrent, Behind
<1>14. ClientIsCurrent' /\ ReadyIsCurrent'
    BY <1>7 DEF ClientIsCurrent, ReadyIsCurrent
<1> QED BY <1>10, <1>11, <1>12, <1>13, <1>14 DEF StoreInv

\* The reset marks every handler that holds an endpoint or a client from before it.
LEMMA FinishSaveInv ==
    ASSUME StoreInv, NEW r \in Requests, FinishSave(r)
    PROVE  StoreInv'
<1> DEFINE k == Head(req[r].entries).key
           q == Handler("lookup", "list", <<>>, None)
<1>1. /\ req \in [Requests -> Request] /\ req[r].pc = "drop" /\ k \in Keys
      /\ UNCHANGED <<env, rows, buckets, faults>>
      /\ client' = None /\ bucketReady' = [set |-> FALSE, late |-> FALSE] /\ cut' = FALSE
      /\ undropped' = undropped \ {k} /\ undropped \subseteq Keys
    BY HeadEntry DEF FinishSave, At, StoreInv, TypeOK, storeVars
<1>2. q \in Request /\ q.pc = "lookup" /\ q.key = "endpoint"
    <2>1. <<>> \in Seq([key : Keys, value : Values])
        OBVIOUS
    <2> QED BY <2>1, HandlerIsRequest DEF Handler
<1>3. req' = [s \in Requests |-> IF s = r THEN q ELSE Overtaken(Missing(k, req[s]))]
    BY DEF FinishSave, Listed
<1>4. DOMAIN cache' = DOMAIN cache \ {k} /\ \A x \in DOMAIN cache' : cache'[x] = cache[x]
    BY Restricted DEF FinishSave
<1> HIDE DEF q
<1>5. /\ req' \in [Requests -> Request] /\ req'[r] = q
      /\ \A s \in Requests \ {r} : req'[s] = Overtaken(Missing(k, req[s]))
    BY <1>1, <1>2, <1>3, MissingIsRequest, OvertakenIsRequest
<1>6. \A s \in Requests \ {r} :
          req[s].pc \notin {"lookup", "fill", "ensure", "make", "ready"} => req'[s] = req[s]
    BY <1>1, <1>5, MissingIsRequest, OvertakenIsRequest
<1>7. \A x : x # k /\ Behind(x) => Behind(x)'
    <2> SUFFICES ASSUME NEW x, x # k, Behind(x) PROVE Behind(x)'
        OBVIOUS
    <2>1. CASE x \in undropped
        BY <2>1, <1>1 DEF Behind
    <2>2. ASSUME NEW s \in Requests, At(s, "drop"), Head(req[s].entries).key = x
          PROVE  Behind(x)'
        <3>1. s # r /\ req'[s] = req[s]
            BY <2>2, <1>1, <1>6 DEF At
        <3> QED BY <2>2, <3>1 DEF Behind, At
    <2> QED BY <2>1, <2>2 DEF Behind
<1> HIDE DEF k
<1>8. \A x : Configured(x)' = Configured(x)
    BY <1>1 DEF Configured
<1>9. TypeOK'
    BY <1>1, <1>4, <1>5 DEF StoreInv, TypeOK, Ready
<1>10. HandlerOK(req[r])'
    BY <1>2, <1>5 DEF HandlerOK
<1>11. ASSUME NEW s \in Requests \ {r} PROVE HandlerOK(req[s])'
    <2>1. HandlerOK(req[s]) /\ req[s] \in Request
        BY <1>1 DEF StoreInv
    <2>2. CASE req[s].pc \in {"lookup", "fill", "ensure", "make", "ready"}
        <3> DEFINE m == Missing(k, req[s])
        <3>1. /\ m \in Request /\ m.pc = req[s].pc /\ m.key = req[s].key /\ m.value = req[s].value
              /\ m.endpoint = req[s].endpoint
              /\ m.missed = (req[s].missed \/ (req[s].pc = "fill" /\ req[s].key = k))
            BY <2>1, <1>1, MissingIsRequest
        <3>2. req'[s] = Overtaken(m)
            BY <1>5
        <3> HIDE DEF m
        <3>3. /\ req'[s].pc = req[s].pc /\ req'[s].key = req[s].key /\ req'[s].value = req[s].value
              /\ req'[s].endpoint = req[s].endpoint /\ req'[s].missed = m.missed
              /\ req[s].pc \in {"lookup", "fill"} /\ req[s].key = "credential" => req'[s].late
              /\ req[s].pc \in {"ensure", "make", "ready"} => req'[s].late
            BY <3>1, <3>2, OvertakenIsRequest
        <3> QED BY <2>1, <2>2, <3>1, <3>3, <1>1, <1>7 DEF HandlerOK, HoldsEndpoint
    <2>3. CASE req[s].pc \notin {"lookup", "fill", "ensure", "make", "ready"}
        BY <2>1, <2>3, <1>6 DEF HandlerOK
    <2> QED BY <2>2, <2>3
<1>12. CacheIsCurrent'
    BY <1>4, <1>7, <1>8 DEF StoreInv, CacheIsCurrent, Behind
<1>13. ClientIsCurrent' /\ ReadyIsCurrent'
    BY <1>1 DEF ClientIsCurrent, ReadyIsCurrent
<1> QED BY <1>9, <1>10, <1>11, <1>12, <1>13 DEF StoreInv

LEMMA StartListInv ==
    ASSUME StoreInv, NEW r \in Requests, StartList(r)
    PROVE  StoreInv'
<1> DEFINE q == Handler("lookup", "list", <<>>, None)
<1>1. q \in Request
    <2>1. <<>> \in Seq([key : Keys, value : Values])
        OBVIOUS
    <2> QED BY <2>1, HandlerIsRequest
<1>2. q.pc = "lookup" /\ q.key = "endpoint"
    BY DEF Handler
<1>3. req' = [req EXCEPT ![r] = q]
    BY DEF StartList
<1> HIDE DEF q
<1>4. req'[r] = q
    BY <1>3 DEF StoreInv, TypeOK
<1>5. HandlerOK(req[r])'
    BY <1>2, <1>4 DEF HandlerOK
<1> QED BY <1>1, <1>2, <1>3, <1>5, QuietStep DEF StartList, At, storeVars, StoreInv, TypeOK

-----------------------------------------------------------------------------
(* Uploads *)

\* An upload that finds a client takes its endpoint and its excuse over.
LEMMA StartInv ==
    ASSUME StoreInv, NEW r \in Requests, NEW kind \in {"upload", "logo", "read"},
           NEW o \in Objects \union {None}, Start(r, kind, o)
    PROVE  StoreInv'
<1>1. req \in [Requests -> Request] /\ req[r].pc = "idle"
      /\ UNCHANGED <<env, rows, cache, client, bucketReady, buckets, cut, undropped, faults>>
      /\ <<>> \in Seq([key : Keys, value : Values])
    BY DEF Start, At, StoreInv, TypeOK, storeVars
<1>2. CASE client = None
    <2> DEFINE q == Handler("lookup", kind, <<>>, o)
    <2>1. q \in Request
        BY <1>1, HandlerIsRequest
    <2>2. q.pc = "lookup" /\ q.key = "endpoint"
        BY DEF Handler
    <2>3. req' = [req EXCEPT ![r] = q]
        BY <1>2 DEF Start
    <2> HIDE DEF q
    <2>4. req'[r] = q
        BY <1>1, <2>3
    <2>5. HandlerOK(req[r])'
        BY <2>2, <2>4 DEF HandlerOK
    <2> QED BY <1>1, <2>1, <2>2, <2>3, <2>5, QuietStep DEF StoreInv, TypeOK
<1>3. CASE client # None
    <2> DEFINE h == Handler(Ensured, kind, <<>>, o)
               q == [h EXCEPT !.endpoint = client.endpoint, !.late = client.late]
    <2>1. Ensured \in {"put", "ensure"}
        BY DEF Ensured
    <2>2. h \in Request /\ h.pc = Ensured
        BY <1>1, <2>1, HandlerIsRequest DEF Handler
    <2>3. client.endpoint \in Values /\ client.late \in BOOLEAN
        BY <1>3 DEF StoreInv, TypeOK, Client
    <2>4. req' = [req EXCEPT ![r] = q]
        BY <1>3 DEF Start
    <2> HIDE DEF h
    <2>5. /\ q \in Request /\ q.pc = Ensured
          /\ q.endpoint = client.endpoint /\ q.late = client.late
        BY <2>2, <2>3 DEF Request
    <2> HIDE DEF q
    <2>6. req'[r] = q /\ req' \in [Requests -> Request] /\ \A s \in Requests \ {r} : req'[s] = req[s]
        BY <1>1, <2>4, <2>5
    <2>7. (Saving' <=> Saving) /\ Configured("endpoint")' = Configured("endpoint")
        BY <1>1, <2>1, <2>5, <2>6, Steady
    <2>8. HoldsEndpoint(req[r])'
        BY <1>1, <1>3, <2>5, <2>6, <2>7 DEF StoreInv, ClientIsCurrent, HoldsEndpoint
    <2>9. HandlerOK(req[r])'
        BY <2>1, <2>5, <2>6, <2>8 DEF HandlerOK
    <2> QED BY <1>1, <2>1, <2>4, <2>5, <2>9, QuietStep DEF StoreInv, TypeOK
<1> QED BY <1>2, <1>3

\* A step of an upload that only moves it to another label.
LEMMA MovedHandler ==
    ASSUME StoreInv, NEW r \in Requests,
           NEW label \in {"make", "ready", "put", "insert"}, NEW stored \in BOOLEAN,
           req' = [req EXCEPT ![r].pc = label, ![r].stored = stored],
           req[r].pc \notin {"upsert", "drop"},
           UNCHANGED <<env, rows, cut, undropped>>, buckets \subseteq buckets'
    PROVE  /\ \E q \in Request : /\ req' = [req EXCEPT ![r] = q] /\ req'[r] = q
                                 /\ q.pc = label /\ q.endpoint = req[r].endpoint /\ q.late = req[r].late
           /\ (Saving' <=> Saving) /\ Configured("endpoint")' = Configured("endpoint")
<1> DEFINE q == [req[r] EXCEPT !.pc = label, !.stored = stored]
<1>1. req \in [Requests -> Request] /\ req[r] \in Request
    BY DEF StoreInv, TypeOK
<1>2. /\ q \in Request /\ q.pc = label
      /\ q.endpoint = req[r].endpoint /\ q.late = req[r].late
    BY <1>1 DEF Request
<1>3. req' = [req EXCEPT ![r] = q]
    BY <1>1
<1> HIDE DEF q
<1>4. req'[r] = q /\ req' \in [Requests -> Request] /\ \A s \in Requests \ {r} : req'[s] = req[s]
    BY <1>1, <1>2, <1>3
<1>5. (Saving' <=> Saving) /\ Configured("endpoint")' = Configured("endpoint")
    BY <1>2, <1>4, Steady
<1> QED BY <1>2, <1>3, <1>4, <1>5

\* Only the label: what was stored is left as it is.
LEMMA Labelled ==
    ASSUME StoreInv, NEW r \in Requests, NEW label, req' = [req EXCEPT ![r].pc = label]
    PROVE  /\ req[r].stored \in BOOLEAN
           /\ req' = [req EXCEPT ![r].pc = label, ![r].stored = req[r].stored]
<1>1. req \in [Requests -> Request] /\ req[r] \in Request
    BY DEF StoreInv, TypeOK
<1>2. [req[r] EXCEPT !.pc = label] = [req[r] EXCEPT !.pc = label, !.stored = req[r].stored]
    BY <1>1 DEF Request
<1> QED BY <1>1, <1>2, RequestFields

LEMMA BucketExistsInv ==
    ASSUME StoreInv, NEW r \in Requests, BucketExists(r)
    PROVE  StoreInv'
<1>1. /\ req[r].pc = "ensure" /\ HoldsEndpoint(req[r])
      /\ UNCHANGED <<env, rows, cache, client, bucketReady, buckets, cut, undropped, faults>>
    BY DEF BucketExists, At, StoreInv, HandlerOK, storeVars
<1>2. CASE req[r].endpoint \in buckets
    <2>1. req' = [req EXCEPT ![r].pc = "ready"]
        BY <1>2 DEF BucketExists, Goto
    <2>2. /\ req[r].stored \in BOOLEAN
          /\ req' = [req EXCEPT ![r].pc = "ready", ![r].stored = req[r].stored]
        BY <2>1, Labelled
    <2>3. PICK q \in Request : /\ req' = [req EXCEPT ![r] = q] /\ req'[r] = q
                               /\ q.pc = "ready" /\ q.endpoint = req[r].endpoint /\ q.late = req[r].late
        BY <1>1, <2>2, MovedHandler
    <2>4. (Saving' <=> Saving) /\ Configured("endpoint")' = Configured("endpoint")
        BY <1>1, <2>2, MovedHandler
    <2>5. HandlerOK(req[r])'
        BY <1>1, <1>2, <2>3, <2>4 DEF HandlerOK, HoldsEndpoint
    <2> QED BY <1>1, <2>3, <2>5, QuietStep DEF StoreInv, TypeOK
<1>3. CASE req[r].endpoint \notin buckets
    <2>1. req' = [req EXCEPT ![r].pc = "make"]
        BY <1>3 DEF BucketExists, Goto
    <2>2. /\ req[r].stored \in BOOLEAN
          /\ req' = [req EXCEPT ![r].pc = "make", ![r].stored = req[r].stored]
        BY <2>1, Labelled
    <2>3. PICK q \in Request : /\ req' = [req EXCEPT ![r] = q] /\ req'[r] = q
                               /\ q.pc = "make" /\ q.endpoint = req[r].endpoint /\ q.late = req[r].late
        BY <1>1, <2>2, MovedHandler
    <2>4. (Saving' <=> Saving) /\ Configured("endpoint")' = Configured("endpoint")
        BY <1>1, <2>2, MovedHandler
    <2>5. HandlerOK(req[r])'
        BY <1>1, <2>3, <2>4 DEF HandlerOK, HoldsEndpoint
    <2> QED BY <1>1, <2>3, <2>5, QuietStep DEF StoreInv, TypeOK
<1> QED BY <1>2, <1>3

LEMMA MakeBucketInv ==
    ASSUME StoreInv, NEW r \in Requests, MakeBucket(r)
    PROVE  StoreInv'
<1>1. /\ req[r].pc = "make" /\ req' = [req EXCEPT ![r].pc = "ready"]
      /\ UNCHANGED <<env, rows, cache, client, bucketReady, cut, undropped, faults>>
      /\ buckets' = buckets \union {req[r].endpoint}
      /\ HoldsEndpoint(req[r])
    BY DEF MakeBucket, Goto, At, StoreInv, HandlerOK
<1>2. /\ req[r].stored \in BOOLEAN
      /\ req' = [req EXCEPT ![r].pc = "ready", ![r].stored = req[r].stored]
    BY <1>1, Labelled
<1>3. PICK q \in Request : /\ req' = [req EXCEPT ![r] = q] /\ req'[r] = q
                           /\ q.pc = "ready" /\ q.endpoint = req[r].endpoint /\ q.late = req[r].late
    BY <1>1, <1>2, MovedHandler
<1>4. (Saving' <=> Saving) /\ Configured("endpoint")' = Configured("endpoint")
    BY <1>1, <1>2, MovedHandler
<1>5. HandlerOK(req[r])'
    BY <1>1, <1>3, <1>4 DEF HandlerOK, HoldsEndpoint
<1> QED BY <1>1, <1>3, <1>5, QuietStep DEF StoreInv, TypeOK

\* bucketReady is set by a handler whose store has the bucket.
LEMMA SetReadyInv ==
    ASSUME StoreInv, NEW r \in Requests, SetReady(r)
    PROVE  StoreInv'
<1>1. /\ req \in [Requests -> Request] /\ req[r].pc = "ready"
      /\ req' = [req EXCEPT ![r].pc = "put"]
      /\ UNCHANGED <<env, rows, cache, client, buckets, cut, undropped, faults>>
      /\ bucketReady' = [set |-> TRUE, late |-> req[r].late]
      /\ HoldsEndpoint(req[r]) /\ req[r].endpoint \in buckets /\ req[r].late \in BOOLEAN
    BY RequestFields DEF SetReady, Goto, At, StoreInv, TypeOK, HandlerOK, storeVars
<1>2. PICK q \in Request : req' = [req EXCEPT ![r] = q] /\ q.pc = "put" /\ req'[r] = q
    BY <1>1, Labelled, MovedHandler
<1>3. req' \in [Requests -> Request] /\ \A s \in Requests \ {r} : req'[s] = req[s]
    BY <1>1, <1>2
<1>4. /\ Saving' <=> Saving
      /\ \A k : Behind(k)' <=> Behind(k)
      /\ \A k : Configured(k)' = Configured(k)
      /\ \A s \in Requests \ {r} : HandlerOK(req[s])'
    BY <1>1, <1>2, <1>3, Steady
<1>5. HandlerOK(req[r])'
    BY <1>2, PutOK
<1>6. TypeOK'
    BY <1>1, <1>3 DEF StoreInv, TypeOK, Ready
<1>7. CacheIsCurrent'
    BY <1>1, <1>4 DEF StoreInv, CacheIsCurrent, Behind
<1>8. ClientIsCurrent'
    BY <1>1, <1>4 DEF StoreInv, ClientIsCurrent
<1>9. ReadyIsCurrent'
    BY <1>1, <1>4 DEF ReadyIsCurrent, HoldsEndpoint
<1> QED BY <1>4, <1>5, <1>6, <1>7, <1>8, <1>9 DEF StoreInv

LEMMA PutObjectInv ==
    ASSUME StoreInv, NEW r \in Requests, PutObject(r)
    PROVE  StoreInv'
<1>1. /\ req[r].pc = "put" /\ req' = [req EXCEPT ![r].pc = "insert", ![r].stored = TRUE]
      /\ UNCHANGED <<env, rows, cache, client, bucketReady, buckets, cut, undropped, faults>>
    BY DEF PutObject, At
<1>2. PICK q \in Request : req' = [req EXCEPT ![r] = q] /\ q.pc = "insert" /\ req'[r] = q
    BY <1>1, MovedHandler
<1>3. HandlerOK(req[r])'
    BY <1>2, PutOK
<1> QED BY <1>1, <1>2, <1>3, QuietStep DEF StoreInv, TypeOK

LEMMA PutFailsInv ==
    ASSUME StoreInv, NEW r \in Requests, PutFails(r)
    PROVE  StoreInv'
<1>1. PICK q \in Request : /\ req' = [req EXCEPT ![r] = q]
                           /\ q = Idle \/ (q.pc = "insert" /\ req[r].kind = "upload")
    BY WithoutClientStep DEF PutFails
<1>2. req'[r] = q
    BY <1>1 DEF StoreInv, TypeOK
<1>3. q.pc \in {"idle", "insert"}
    BY <1>1 DEF Idle, Handler
<1>4. HandlerOK(req[r])'
    BY <1>1, <1>2, IdleOK, PutOK
<1> QED BY <1>1, <1>3, <1>4, QuietStep DEF PutFails, storeVars, StoreInv, TypeOK

\* The row is inserted, or the logo's key saved, and the handler is done.
LEMMA InsertInv ==
    ASSUME StoreInv, NEW r \in Requests, InsertDrawing(r) \/ SaveLogo(r)
    PROVE  StoreInv'
<1>1. /\ req[r].pc = "insert" /\ req' = [req EXCEPT ![r] = Idle]
      /\ UNCHANGED <<env, rows, cache, client, bucketReady, buckets, cut, undropped, faults>>
    BY DEF InsertDrawing, SaveLogo, At, Finish
<1>2. req'[r] = Idle /\ Idle.pc = "idle"
    BY <1>1 DEF StoreInv, TypeOK, Idle, Handler
<1> QED BY <1>1, <1>2, IdleOK, IdleIsRequest, QuietStep DEF StoreInv, TypeOK

-----------------------------------------------------------------------------
(* Faults *)

\* A save that is cut short leaves `cut` behind, and `undropped` if its row was written, which
\* excuse what it excused.
LEMMA AbortInv ==
    ASSUME StoreInv, NEW r \in Requests, Abort(r)
    PROVE  StoreInv'
<1> DEFINE left == IF At(r, "drop") THEN {Head(req[r].entries).key} ELSE {}
<1>0. left \subseteq Keys
    BY HeadEntry DEF At
<1>1. /\ req \in [Requests -> Request] /\ req[r].pc \in {"upsert", "drop", "insert"}
      /\ req' = [req EXCEPT ![r] = Idle]
      /\ UNCHANGED <<env, rows, cache, client, bucketReady, buckets>>
      /\ cut' = (cut \/ req[r].written) /\ cut' \in BOOLEAN /\ faults' \in 0..MaxFaults
      /\ undropped' = undropped \union left /\ undropped' \subseteq Keys
    BY <1>0, StoreConstants DEF Abort, Finish, storeVars, StoreInv, TypeOK
<1>2. req' \in [Requests -> Request] /\ req'[r] = Idle /\ \A s \in Requests \ {r} : req'[s] = req[s]
    BY <1>1, IdleIsRequest
<1>3. cut \/ Saving => cut' \/ Saving'
    BY <1>1, <1>2 DEF Saving
<1>4. ASSUME NEW k, Behind(k) PROVE Behind(k)'
    <2>1. CASE k \in undropped
        BY <2>1, <1>1 DEF Behind
    <2>2. ASSUME NEW s \in Requests, At(s, "drop"), Head(req[s].entries).key = k
          PROVE  Behind(k)'
        <3>1. CASE s = r
            BY <2>2, <3>1, <1>1 DEF Behind
        <3>2. CASE s # r
            BY <2>2, <3>2, <1>2 DEF Behind, At
        <3> QED BY <3>1, <3>2
    <2> QED BY <1>4, <2>1, <2>2 DEF Behind
<1> HIDE DEF left
<1>5. (\A k : Configured(k)' = Configured(k)) /\ undropped \subseteq undropped'
    BY <1>1 DEF Configured
<1>6. TypeOK'
    BY <1>1, <1>2 DEF StoreInv, TypeOK
<1>7. HandlerOK(req[r])'
    BY <1>2, IdleOK
<1>8. ASSUME NEW s \in Requests \ {r} PROVE HandlerOK(req[s])'
    <2>1. HandlerOK(req[s]) /\ req'[s] = req[s]
        BY <1>2 DEF StoreInv
    <2> QED BY <2>1, <1>1, <1>3, <1>4, <1>5 DEF HandlerOK, HoldsEndpoint
<1>9. CacheIsCurrent'
    <2> SUFFICES ASSUME NEW k \in DOMAIN cache
                 PROVE  cache[k].value = Configured(k)' \/ cache[k].late \/ Behind(k)'
        BY <1>1 DEF CacheIsCurrent, Behind
    <2>1. cache[k].value = Configured(k) \/ cache[k].late \/ Behind(k)
        BY DEF StoreInv, CacheIsCurrent, Behind
    <2> QED BY <2>1, <1>4, <1>5
<1>10. ClientIsCurrent' /\ ReadyIsCurrent'
    BY <1>1, <1>3, <1>5 DEF StoreInv, ClientIsCurrent, ReadyIsCurrent
<1> QED BY <1>6, <1>7, <1>8, <1>9, <1>10 DEF StoreInv

\* Nothing cached, no client, nobody under way.
LEMMA FreshProcess ==
    ASSUME cache = <<>>, client = None, bucketReady = [set |-> FALSE, late |-> FALSE],
           req = [r \in Requests |-> Idle], cut = FALSE, undropped = {}, env \in Environments,
           rows \in [Keys -> Values], faults \in 0..MaxFaults
    PROVE  StoreInv
<1>1. DOMAIN cache = {}
    OBVIOUS
<1>2. TypeOK
    BY <1>1, IdleIsRequest DEF TypeOK, Ready
<1>3. \A r \in Requests : HandlerOK(req[r])
    BY DEF HandlerOK, Idle, Handler
<1>4. CacheIsCurrent /\ ClientIsCurrent /\ ReadyIsCurrent
    BY <1>1 DEF CacheIsCurrent, ClientIsCurrent, ReadyIsCurrent
<1> QED BY <1>2, <1>3, <1>4 DEF StoreInv

LEMMA InitInv == Init => StoreInv
<1> SUFFICES ASSUME Init PROVE StoreInv
    OBVIOUS
<1>1. rows \in [Keys -> Values] /\ faults \in 0..MaxFaults
    BY StoreConstants DEF Init, Values
<1> QED BY <1>1, FreshProcess DEF Init

LEMMA RestartInv ==
    ASSUME StoreInv, Restart
    PROVE  StoreInv'
<1>1. env' \in Environments /\ rows' \in [Keys -> Values] /\ faults' \in 0..MaxFaults
    BY StoreConstants DEF Restart, StoreInv, TypeOK
<1>2. /\ cache' = <<>> /\ client' = None /\ bucketReady' = [set |-> FALSE, late |-> FALSE]
      /\ req' = [r \in Requests |-> Idle] /\ cut' = FALSE /\ undropped' = {}
    BY DEF Restart
<1>3. DOMAIN cache' = {}
    BY <1>2
<1>4. TypeOK'
    BY <1>1, <1>2, <1>3, IdleIsRequest DEF TypeOK, Ready
<1>5. \A r \in Requests : HandlerOK(req[r])'
    BY <1>2 DEF HandlerOK, Idle, Handler
<1>6. CacheIsCurrent' /\ ClientIsCurrent' /\ ReadyIsCurrent'
    BY <1>2, <1>3 DEF CacheIsCurrent, ClientIsCurrent, ReadyIsCurrent
<1> QED BY <1>4, <1>5, <1>6 DEF StoreInv

LEMMA StutterInv ==
    ASSUME StoreInv, UNCHANGED vars
    PROVE  StoreInv'
<1>1. TypeOK'
    BY DEF StoreInv, TypeOK, vars
<1>2. \A r \in Requests : HandlerOK(req[r])'
    BY DEF StoreInv, HandlerOK, HoldsEndpoint, Configured, Saving, Behind, At, vars
<1>3. CacheIsCurrent' /\ ClientIsCurrent' /\ ReadyIsCurrent'
    BY DEF StoreInv, CacheIsCurrent, ClientIsCurrent, ReadyIsCurrent, Configured, Saving, At, vars
<1> QED BY <1>1, <1>2, <1>3 DEF StoreInv

LEMMA NextInv == StoreInv /\ [Next]_vars => StoreInv'
<1> SUFFICES ASSUME StoreInv, [Next]_vars PROVE StoreInv'
    OBVIOUS
<1>1. CASE Restart
    BY <1>1, RestartInv
<1>2. ASSUME NEW r \in Requests, StartList(r) \/ \E entries \in Saves : StartSave(r, entries)
      PROVE  StoreInv'
    BY <1>2, StartListInv, StartSaveInv
<1>3. ASSUME NEW r \in Requests, NEW kind \in {"upload", "logo", "read"}, NEW o \in Objects \union {None},
             Start(r, kind, o)
      PROVE  StoreInv'
    BY <1>3, StartInv
<1>4. ASSUME NEW r \in Requests,
             Cached(r) \/ FromEnvironment(r) \/ ReadRow(r) \/ Fill(r) \/ LookUpFails(r)
      PROVE  StoreInv'
    BY <1>4, CachedInv, FromEnvironmentInv, ReadRowInv, FillInv, LookUpFailsInv
<1>5. ASSUME NEW r \in Requests, Upsert(r) \/ DropEntry(r) \/ FinishSave(r)
      PROVE  StoreInv'
    BY <1>5, UpsertInv, DropEntryInv, FinishSaveInv
<1>6. ASSUME NEW r \in Requests,
             \/ BucketExists(r) \/ MakeBucket(r) \/ SetReady(r) \/ PutObject(r) \/ PutFails(r)
             \/ InsertDrawing(r) \/ SaveLogo(r) \/ Abort(r)
      PROVE  StoreInv'
    BY <1>6, BucketExistsInv, MakeBucketInv, SetReadyInv, PutObjectInv, PutFailsInv, InsertInv, AbortInv
<1>7. CASE UNCHANGED vars
    BY <1>7, StutterInv
<1> QED BY <1>1, <1>2, <1>3, <1>4, <1>5, <1>6, <1>7 DEF Next

-----------------------------------------------------------------------------
(* Uploads are not lost *)

\* A handler of an upload ends in no step but the insert of its row, a rejected insert or a restart.
LEMMA UploadEnds ==
    ASSUME StoreInv, Next, NEW r \in Requests,
           req[r].kind = "upload", req[r] # Idle, req'[r] = Idle
    PROVE  (\E d \in drawings' : d.upload = req[r].object) \/ faults' > faults
<1>0. /\ req \in [Requests -> Request] /\ req[r] \in Request /\ req[r].pc # "idle" /\ Idle.pc = "idle"
      /\ faults \in Nat
    BY StoreConstants DEF StoreInv, TypeOK, HandlerOK, Idle, Handler
<1>1. CASE Restart
    BY <1>0, <1>1 DEF Restart
<1>2. CASE \E s \in Requests : Abort(s)
    BY <1>0, <1>2 DEF Abort
<1>3. ASSUME NEW s \in Requests, s # r,
             \/ StartList(s) \/ \E entries \in Saves : StartSave(s, entries)
             \/ \E kind \in {"upload", "logo", "read"}, o \in Objects \union {None} : Start(s, kind, o)
             \/ Cached(s) \/ FromEnvironment(s) \/ ReadRow(s) \/ Fill(s) \/ LookUpFails(s)
             \/ Upsert(s) \/ BucketExists(s) \/ MakeBucket(s) \/ SetReady(s) \/ PutObject(s)
             \/ PutFails(s) \/ InsertDrawing(s) \/ SaveLogo(s)
      PROVE  FALSE
    <2>1. req'[r] = req[r]
        BY <1>0, <1>3 DEF StartList, StartSave, Start, Cached, FromEnvironment, ReadRow, Fill, LookUpFails,
                          Resolved, WithoutClient, Upsert, BucketExists, MakeBucket, SetReady, PutObject,
                          PutFails, InsertDrawing, SaveLogo, Goto, Finish
    <2> QED BY <2>1
<1>4. ASSUME NEW s \in Requests, s # r, DropEntry(s) \/ FinishSave(s)
      PROVE  FALSE
    <2>1. Head(req[s].entries).key \in Keys
        BY <1>4, HeadEntry DEF DropEntry, FinishSave, At
    <2>2. CASE DropEntry(s)
        <3>1. req'[r] = Missing(Head(req[s].entries).key, req[r])
            BY <1>4, <2>2 DEF DropEntry
        <3> QED BY <1>0, <2>1, <3>1, MissingIsRequest
    <2>3. CASE FinishSave(s)
        <3>1. req'[r] = Overtaken(Missing(Head(req[s].entries).key, req[r]))
            BY <1>4, <2>3 DEF FinishSave, Listed
        <3> QED BY <1>0, <2>1, <3>1, MissingIsRequest, OvertakenIsRequest
    <2> QED BY <1>4, <2>2, <2>3
<1>5. ASSUME StartList(r) \/ (\E entries \in Saves : StartSave(r, entries))
             \/ \E kind \in {"upload", "logo", "read"}, o \in Objects \union {None} : Start(r, kind, o)
      PROVE  FALSE
    BY <1>0, <1>5 DEF StartList, StartSave, Start, At
<1>6. ASSUME NEW v, NEW late, NEW unread, Resolved(r, v, late, unread)
      PROVE  FALSE
    <2>1. CASE WithoutClient(r)
        <3>1. req'[r] = [req[r] EXCEPT !.pc = "insert"]
            BY <1>0, <2>1 DEF WithoutClient
        <3> QED BY <1>0, <3>1 DEF Request
    <2>2. CASE req[r].key = "endpoint" /\ (req[r].kind = "list" \/ v # None)
        <3>1. req'[r] = [req[r] EXCEPT !.pc = "lookup", !.key = "credential", !.value = None,
                                       !.missed = FALSE, !.late = late, !.endpoint = v]
            BY <1>0, <1>6, <2>2 DEF Resolved
        <3>2. req'[r].pc = "lookup"
            BY <1>0, <3>1 DEF Request
        <3> QED BY <1>0, <3>2
    <2>3. CASE req[r].key = "credential" /\ req[r].kind # "list" /\ GivesLogin(v)
        <3> DEFINE l == req[r].late \/ late
        <3>1. ~ (req[r].key = "endpoint" /\ (req[r].kind = "list" \/ v # None)) /\ req[r].kind # "read"
            BY <2>3
        <3>2. req'[r] = [req[r] EXCEPT !.pc = Ensured, !.late = l, !.missed = FALSE, !.value = None]
            BY <1>0, <1>6, <2>3, <3>1 DEF Resolved
        <3> HIDE DEF l
        <3>3. req'[r].pc = Ensured
            BY <1>0, <3>2 DEF Request
        <3>4. Ensured # "idle"
            BY DEF Ensured
        <3> QED BY <1>0, <3>3, <3>4
    <2> QED BY <1>6, <2>1, <2>2, <2>3 DEF Resolved
<1>7. ASSUME Cached(r) \/ FromEnvironment(r) \/ Fill(r) \/ LookUpFails(r)
      PROVE  FALSE
    BY <1>6, <1>7 DEF Cached, FromEnvironment, Fill, LookUpFails
<1>8. ASSUME ReadRow(r) \/ BucketExists(r) \/ MakeBucket(r) \/ SetReady(r) \/ PutObject(r)
      PROVE  FALSE
    <2>1. req'[r].pc \in {"fill", "ready", "make", "put", "insert"}
        BY <1>0, <1>8 DEF ReadRow, BucketExists, MakeBucket, SetReady, PutObject, Goto, Request
    <2> QED BY <1>0, <2>1
<1>9. ASSUME PutFails(r)
      PROVE  FALSE
    <2>1. req'[r] = [req[r] EXCEPT !.pc = "insert"]
        BY <1>0, <1>9 DEF PutFails, WithoutClient
    <2> QED BY <1>0, <2>1 DEF Request
<1>10. ASSUME Upsert(r) \/ DropEntry(r) \/ FinishSave(r)
       PROVE  FALSE
    <2>1. CASE Upsert(r)
        <3>1. req'[r] = [req[r] EXCEPT !.pc = "drop", !.written = TRUE]
            BY <1>0, <2>1 DEF Upsert
        <3> QED BY <1>0, <3>1 DEF Request
    <2>2. CASE DropEntry(r)
        <3>1. req'[r] = [req[r] EXCEPT !.pc = "upsert", !.entries = Tail(req[r].entries)]
            BY <1>0, <2>2 DEF DropEntry
        <3> QED BY <1>0, <3>1 DEF Request
    <2>3. CASE FinishSave(r)
        <3>1. req'[r] = Handler("lookup", "list", <<>>, None)
            BY <2>3 DEF FinishSave, Listed
        <3> QED BY <1>0, <3>1 DEF Handler
    <2> QED BY <1>10, <2>1, <2>2, <2>3
<1>11. CASE InsertDrawing(r)
    <2> DEFINE row == [upload |-> req[r].object,
                       objectKey |-> IF req[r].stored THEN req[r].object ELSE None]
    <2>1. row.upload = req[r].object
        OBVIOUS
    <2>2. row \in drawings'
        BY <1>11 DEF InsertDrawing
    <2> QED BY <2>1, <2>2
<1>12. CASE SaveLogo(r)
    BY <1>12 DEF SaveLogo
<1>13. PICK s \in Requests :
          \/ StartList(s) \/ \E entries \in Saves : StartSave(s, entries)
          \/ \E kind \in {"upload", "logo", "read"}, o \in Objects \union {None} : Start(s, kind, o)
          \/ Cached(s) \/ FromEnvironment(s) \/ ReadRow(s) \/ Fill(s) \/ LookUpFails(s)
          \/ Upsert(s) \/ DropEntry(s) \/ FinishSave(s)
          \/ BucketExists(s) \/ MakeBucket(s) \/ SetReady(s) \/ PutObject(s) \/ PutFails(s)
          \/ InsertDrawing(s) \/ SaveLogo(s) \/ Abort(s) \/ Restart
    BY DEF Next
<1>14. CASE s # r
    BY <1>1, <1>2, <1>3, <1>4, <1>13, <1>14
<1>15. CASE s = r
    BY <1>1, <1>2, <1>5, <1>7, <1>8, <1>9, <1>10, <1>11, <1>12, <1>13, <1>15
<1> QED BY <1>14, <1>15

-----------------------------------------------------------------------------
(* Theorems *)

\* StoreInv holds in every reachable state of the settings, the client and the uploads.
THEOREM StoreInvariant == Spec => []StoreInv
<1>1. Init => StoreInv
    BY InitInv
<1>2. StoreInv /\ [Next]_vars => StoreInv'
    BY NextInv
<1> QED BY <1>1, <1>2, PTL DEF Spec

\* A cached credential is the configured one, but for a save between its row and the cache and for
\* a look-up that was overtaken.
THEOREM CacheStaysCurrent == Spec => []CacheIsCurrent
<1>1. StoreInv => CacheIsCurrent
    BY DEF StoreInv
<1> QED BY <1>1, StoreInvariant, PTL

\* The storage client is built from what is configured, with the exceptions ClientIsCurrent names.
THEOREM ClientStaysCurrent == Spec => []ClientIsCurrent
<1>1. StoreInv => ClientIsCurrent
    BY DEF StoreInv
<1> QED BY <1>1, StoreInvariant, PTL

\* The store of the client has the bucket when bucketReady says so, with the same exceptions.
THEOREM ReadyIsTrue == Spec => []BucketIsThere
<1>1. StoreInv => BucketIsThere
    BY DEF StoreInv, ClientIsCurrent, ReadyIsCurrent, BucketIsThere
<1> QED BY <1>1, StoreInvariant, PTL

\* An accepted upload ends with its Drawing row, whatever becomes of its file.
THEOREM UploadsAreKept == Spec => NoUploadLost
<1> DEFINE Kept == \A r \in Requests :
                      req[r].kind = "upload" /\ req[r] # Idle /\ req'[r] = Idle =>
                         \/ \E d \in drawings' : d.upload = req[r].object
                         \/ faults' > faults
<1>1. StoreInv /\ [Next]_vars => [Kept]_vars
    BY UploadEnds
<1>2. [][Kept]_vars => NoUploadLost
    BY PTL DEF NoUploadLost
<1> QED BY <1>1, <1>2, StoreInvariant, PTL DEF Spec

-----------------------------------------------------------------------------
(***************************************************************************)
(* What is read from the file: the length of the path                      *)
(***************************************************************************)


GridPoint == Int \X Int

\* A span is a distance of its two ends, in either order.
LEMMA SpanIs ==
    \A p, q \in GridPoint : Span(p, q) \in Nat /\ Span(p, p) = 0 /\ Span(p, q) = Span(q, p)
BY DEF GridPoint, Span, Abs

\* Sequence r is sequence t after sequence s.
After(r, s, t) ==
    /\ Len(r) = Len(s) + Len(t)
    /\ \A i \in 1 .. Len(s) : r[i] = s[i]
    /\ \A i \in 1 .. Len(t) : r[Len(s) + i] = t[i]

\* Two sequences, one after the other.
LEMMA ConcatIs == \A T : \A s, t \in Seq(T) : s \o t \in Seq(T) /\ After(s \o t, s, t)
<1> TAKE T
<1> TAKE s, t \in Seq(T)
<1> QED BY DEF After

\* Sequences are the same when their elements are.
LEMMA SameSequence ==
    \A T : \A s, t \in Seq(T) :
        Len(s) = Len(t) /\ (\A i \in 1 .. Len(s) : s[i] = t[i]) => s = t
OBVIOUS

\* A sequence of one element.
LEMMA OneElement == \A T : \A x \in T : <<x>> \in Seq(T) /\ Len(<<x>>) = 1 /\ <<x>>[1] = x
OBVIOUS

\* The steps of a path are the spans of its consecutive points.
LEMMA StepsAre ==
    \A p \in Seq(GridPoint) :
        Len(p) > 0 =>
            /\ Steps(p) \in Seq(Int)
            /\ Len(Steps(p)) = Len(p) - 1
            /\ \A i \in 1 .. Len(p) - 1 : Steps(p)[i] = Span(p[i], p[i + 1])
<1> TAKE p \in Seq(GridPoint)
<1> HAVE Len(p) > 0
<1> DEFINE n == Len(p) - 1
<1>1. n \in Nat /\ \A i \in 1 .. n : p[i] \in GridPoint /\ p[i + 1] \in GridPoint
  OBVIOUS
<1>2. Steps(p) = [i \in 1 .. n |-> Span(p[i], p[i + 1])]
  BY DEF Steps
<1>3. \A i \in 1 .. n : Span(p[i], p[i + 1]) \in Int
  BY <1>1, SpanIs
<1> QED BY <1>1, <1>2, <1>3

\* The length of two paths, one after the other, has the step between them.
LEMMA LengthConcat ==
    \A p, q \in Seq(GridPoint) :
        Len(p) > 0 => SumOf(Steps(p \o q)) = SumOf(Steps(p)) + SumOf(Steps(<<p[Len(p)]>> \o q))
<1> TAKE p, q \in Seq(GridPoint)
<1> HAVE Len(p) > 0
<1> DEFINE n == Len(p)
           m == Len(q)
           both == p \o q
           last == <<p[n]>>
           rest == last \o q
<1>1. n \in Nat /\ m \in Nat /\ n > 0 /\ p[n] \in GridPoint
  OBVIOUS
<1>2. /\ both \in Seq(GridPoint) /\ Len(both) = n + m
      /\ \A i \in 1 .. n : both[i] = p[i]
      /\ \A i \in 1 .. m : both[n + i] = q[i]
  <2>1. both \in Seq(GridPoint) /\ After(both, p, q)
    BY ConcatIs, Zenon
  <2> HIDE DEF both
  <2> QED BY <2>1 DEF After
<1>3. last \in Seq(GridPoint) /\ Len(last) = 1 /\ last[1] = p[n]
  BY <1>1, OneElement, Zenon
<1> HIDE DEF last
<1>4. /\ rest \in Seq(GridPoint) /\ Len(rest) = 1 + m
      /\ \A i \in 1 .. 1 : rest[i] = last[i]
      /\ \A i \in 1 .. m : rest[1 + i] = q[i]
  <2>1. rest \in Seq(GridPoint) /\ After(rest, last, q)
    BY <1>3, ConcatIs, Zenon
  <2> HIDE DEF rest
  <2> QED BY <1>3, <2>1 DEF After
<1>5. rest[1] = p[n]
  BY <1>3, <1>4
<1> DEFINE sp == Steps(p)
           sr == Steps(rest)
           sb == Steps(both)
           s  == sp \o sr
<1>6. sp \in Seq(Int) /\ Len(sp) = n - 1 /\ \A i \in 1 .. n - 1 : sp[i] = Span(p[i], p[i + 1])
  BY StepsAre, Zenon
<1>7. sr \in Seq(Int) /\ Len(sr) = m /\ \A i \in 1 .. m : sr[i] = Span(rest[i], rest[i + 1])
  <2> HIDE DEF rest, m, sr
  <2>1. Len(rest) > 0 /\ Len(rest) - 1 = m
    BY <1>1, <1>4
  <2>2. sr \in Seq(Int) /\ Len(sr) = Len(rest) - 1 /\ \A i \in 1 .. Len(rest) - 1 : sr[i] = Span(rest[i], rest[i + 1])
    BY <1>4, <2>1, StepsAre, Zenon DEF sr
  <2> QED BY <2>1, <2>2
<1>8. sb \in Seq(Int) /\ Len(sb) = n + m - 1 /\ \A i \in 1 .. n + m - 1 : sb[i] = Span(both[i], both[i + 1])
  <2> HIDE DEF both, n, m, sb
  <2>1. Len(both) > 0 /\ Len(both) - 1 = n + m - 1
    BY <1>1, <1>2
  <2>2. sb \in Seq(Int) /\ Len(sb) = Len(both) - 1 /\ \A i \in 1 .. Len(both) - 1 : sb[i] = Span(both[i], both[i + 1])
    BY <1>2, <2>1, StepsAre, Zenon DEF sb
  <2> QED BY <2>1, <2>2
<1>9. /\ s \in Seq(Int) /\ Len(s) = Len(sp) + Len(sr)
      /\ \A i \in 1 .. Len(sp) : s[i] = sp[i]
      /\ \A i \in 1 .. Len(sr) : s[Len(sp) + i] = sr[i]
  <2>1. s \in Seq(Int) /\ After(s, sp, sr)
    BY <1>6, <1>7, ConcatIs, Zenon
  <2> HIDE DEF s, sp, sr
  <2> QED BY <2>1 DEF After
<1> HIDE DEF both, rest, sp, sr, sb, s, n, m
<1>10. ASSUME NEW i \in 1 .. n + m - 1 PROVE sb[i] = s[i]
  <2>1. CASE i <= n - 1
    <3>1. i \in 1 .. n - 1 /\ i \in 1 .. n /\ i + 1 \in 1 .. n
      BY <1>1, <2>1
    <3>2. s[i] = Span(p[i], p[i + 1])
      BY <1>6, <1>9, <3>1
    <3> QED BY <1>2, <1>8, <3>1, <3>2
  <2>2. CASE i = n
    <3>1. 1 \in 1 .. m /\ i = n - 1 + 1 /\ 1 + 1 = 2 /\ n \in 1 .. n
      BY <1>1, <2>2
    <3>2. s[i] = Span(rest[1], rest[2])
      BY <1>6, <1>7, <1>9, <3>1
    <3>3. both[i] = rest[1] /\ both[i + 1] = q[1] /\ rest[2] = q[1]
      BY <1>2, <1>4, <1>5, <2>2, <3>1
    <3> QED BY <1>8, <3>2, <3>3
  <2>3. CASE i > n
    <3> DEFINE k == i - n
    <3>1. k \in 1 .. m /\ k + 1 \in 1 .. m /\ i = n - 1 + (k + 1) /\ i = n + k /\ i + 1 = n + (k + 1) /\ 1 + k = k + 1
      BY <1>1, <2>3
    <3> HIDE DEF k
    <3>2. s[i] = Span(rest[k + 1], rest[(k + 1) + 1])
      BY <1>6, <1>7, <1>9, <3>1
    <3>3. both[i] = q[k] /\ both[i + 1] = q[k + 1]
      BY <1>2, <3>1
    <3>4. rest[k + 1] = q[k] /\ rest[(k + 1) + 1] = q[k + 1]
      <4>1. 1 + k = k + 1 /\ 1 + (k + 1) = (k + 1) + 1
        BY <3>1
      <4> QED BY <1>4, <3>1, <4>1
    <3> QED BY <1>8, <3>2, <3>3, <3>4
  <2> QED BY <1>1, <2>1, <2>2, <2>3
<1>11. Len(s) = n + m - 1
  BY <1>1, <1>6, <1>7, <1>9
<1>12. sb = s
  BY <1>8, <1>9, <1>10, <1>11, SameSequence
<1>13. SumOf(sb) = SumOf(sp) + SumOf(sr)
  BY <1>6, <1>7, <1>12, SumConcat DEF s
<1> QED BY <1>13 DEF both, rest, last, sb, sp, sr, n

\* The length of a path of two points.
LEMMA LengthTwo == \A p, q \in GridPoint : SumOf(Steps(<<p, q>>)) = Span(p, q)
<1> TAKE p, q \in GridPoint
<1> DEFINE s == <<p, q>>
<1>1. s \in Seq(GridPoint) /\ Len(s) = 2 /\ s[1] = p /\ s[2] = q
  OBVIOUS
<1> HIDE DEF s
<1>2. Len(s) > 0 /\ Len(s) - 1 = 1
  BY <1>1
<1>3. Steps(s) \in Seq(Int) /\ Len(Steps(s)) = Len(s) - 1 /\ \A i \in 1 .. Len(s) - 1 : Steps(s)[i] = Span(s[i], s[i + 1])
  BY <1>1, <1>2, StepsAre, Zenon
<1>4. Len(Steps(s)) = 1 /\ Steps(s)[1] = Span(p, q) /\ Span(p, q) \in Int
  <2>1. Span(p, q) \in Int
    BY SpanIs
  <2> QED BY <1>1, <1>2, <1>3, <2>1
<1>5. Steps(s) = <<Span(p, q)>>
  BY <1>3, <1>4
<1> QED BY <1>4, <1>5, SumOne DEF s

\* One point has no length.
LEMMA LengthOne == \A p \in GridPoint : SumOf(Steps(<<p>>)) = 0
<1> TAKE p \in GridPoint
<1> DEFINE s == <<p>>
<1>1. s \in Seq(GridPoint) /\ Len(s) = 1
  OBVIOUS
<1> HIDE DEF s
<1>2. Len(s) > 0 /\ Len(s) - 1 = 0
  BY <1>1
<1>3. Steps(s) \in Seq(Int) /\ Len(Steps(s)) = 0
  BY <1>1, <1>2, StepsAre
<1>4. Steps(s) = <<>>
  BY <1>3
<1> QED BY <1>3, <1>4, SumIs DEF s

\* The length of a path with one more point.
LEMMA LengthAppend ==
    \A p \in Seq(GridPoint) : \A q \in GridPoint :
        Len(p) > 0 => SumOf(Steps(p \o <<q>>)) = SumOf(Steps(p)) + Span(p[Len(p)], q)
<1> TAKE p \in Seq(GridPoint)
<1> TAKE q \in GridPoint
<1> HAVE Len(p) > 0
<1> DEFINE r == p[Len(p)]
<1>1. <<q>> \in Seq(GridPoint) /\ r \in GridPoint
  OBVIOUS
<1>2. SumOf(Steps(p \o <<q>>)) = SumOf(Steps(p)) + SumOf(Steps(<<r>> \o <<q>>))
  BY <1>1, LengthConcat, Zenon
<1> HIDE DEF r
<1>3. <<r>> \o <<q>> = <<r, q>>
  <2> DEFINE a == <<r>>
             b == <<q>>
             c == a \o b
             d == <<r, q>>
  <2>1. a \in Seq(GridPoint) /\ b \in Seq(GridPoint) /\ Len(a) = 1 /\ Len(b) = 1 /\ a[1] = r /\ b[1] = q
    BY <1>1
  <2>2. d \in Seq(GridPoint) /\ Len(d) = 2 /\ d[1] = r /\ d[2] = q
    BY <1>1
  <2> HIDE DEF a, b, d
  <2>3. c \in Seq(GridPoint) /\ Len(c) = 2 /\ c[1] = r /\ c[2] = q
    <3>1. c \in Seq(GridPoint) /\ After(c, a, b)
      BY <2>1, ConcatIs, Zenon
    <3> HIDE DEF c
    <3> QED BY <2>1, <3>1 DEF After
  <2> HIDE DEF c
  <2>4. c = d
    BY <2>2, <2>3, SameSequence
  <2> QED BY <2>4 DEF a, b, c, d
<1>4. SumOf(Steps(<<r, q>>)) = Span(r, q)
  BY <1>1, LengthTwo
<1> QED BY <1>2, <1>3, <1>4 DEF r

-----------------------------------------------------------------------------
(* Arcs *)

\* Two cosines a quarter of a turn apart are the corners of the diamond, and half way between them.
LEMMA CosineIs ==
    \A e \in Int :
        \/ e % 8 = 0 /\ Cosine(e) = 2 /\ Cosine(e - 2) = 0
        \/ e % 8 = 1 /\ Cosine(e) = 1 /\ Cosine(e - 2) = 1
        \/ e % 8 = 2 /\ Cosine(e) = 0 /\ Cosine(e - 2) = 2
        \/ e % 8 = 3 /\ Cosine(e) = -1 /\ Cosine(e - 2) = 1
        \/ e % 8 = 4 /\ Cosine(e) = -2 /\ Cosine(e - 2) = 0
        \/ e % 8 = 5 /\ Cosine(e) = -1 /\ Cosine(e - 2) = -1
        \/ e % 8 = 6 /\ Cosine(e) = 0 /\ Cosine(e - 2) = -2
        \/ e % 8 = 7 /\ Cosine(e) = 1 /\ Cosine(e - 2) = -1
<1> TAKE e \in Int
<1>1. e % 8 \in 0 .. 7 /\ (e - 2) % 8 = ((e % 8) + 6) % 8
  OBVIOUS
<1> DEFINE table == <<2, 1, 0, -1, -2, -1, 0, 1>>
<1>2. /\ table[1] = 2 /\ table[2] = 1 /\ table[3] = 0 /\ table[4] = -1
      /\ table[5] = -2 /\ table[6] = -1 /\ table[7] = 0 /\ table[8] = 1
  OBVIOUS
<1>3. Cosine(e) = table[(e % 8) + 1] /\ Cosine(e - 2) = table[((e - 2) % 8) + 1]
  BY DEF Cosine
<1> HIDE DEF table
<1> QED BY <1>1, <1>2, <1>3

\* The points of a circle: corners of the diamond, and the middles of its sides.
IsPoint(p, c, half, k) ==
    \/ k = 0 /\ p = <<c[1] + 2 * half, c[2]>>
    \/ k = 1 /\ p = <<c[1] + half, c[2] + half>>
    \/ k = 2 /\ p = <<c[1], c[2] + 2 * half>>
    \/ k = 3 /\ p = <<c[1] - half, c[2] + half>>
    \/ k = 4 /\ p = <<c[1] - 2 * half, c[2]>>
    \/ k = 5 /\ p = <<c[1] - half, c[2] - half>>
    \/ k = 6 /\ p = <<c[1], c[2] - 2 * half>>
    \/ k = 7 /\ p = <<c[1] + half, c[2] - half>>

\* PointAt returns the corner or the side of the diamond its angle says.
LEMMA PointIs ==
    \A c \in GridPoint : \A half, e \in Int : IsPoint(PointAt(c, 2 * half, e), c, half, e % 8)
<1> TAKE c \in GridPoint
<1> TAKE half, e \in Int
<1> DEFINE x == Cosine(e)
           y == Cosine(e - 2)
<1>1. PointAt(c, 2 * half, e) = <<c[1] + ((2 * half) * x) \div 2, c[2] + ((2 * half) * y) \div 2>>
  BY DEF PointAt
<1>2. c[1] \in Int /\ c[2] \in Int
  BY DEF GridPoint
<1>3. /\ ((2 * half) * 2) \div 2 = 2 * half /\ ((2 * half) * 1) \div 2 = half /\ ((2 * half) * 0) \div 2 = 0
      /\ ((2 * half) * (-1)) \div 2 = -half /\ ((2 * half) * (-2)) \div 2 = -(2 * half)
  OBVIOUS
<1>4. \/ e % 8 = 0 /\ x = 2 /\ y = 0
      \/ e % 8 = 1 /\ x = 1 /\ y = 1
      \/ e % 8 = 2 /\ x = 0 /\ y = 2
      \/ e % 8 = 3 /\ x = -1 /\ y = 1
      \/ e % 8 = 4 /\ x = -2 /\ y = 0
      \/ e % 8 = 5 /\ x = -1 /\ y = -1
      \/ e % 8 = 6 /\ x = 0 /\ y = -2
      \/ e % 8 = 7 /\ x = 1 /\ y = -1
  BY CosineIs
<1> HIDE DEF x, y
<1> QED BY <1>1, <1>2, <1>3, <1>4 DEF IsPoint

\* A point of a circle is on the grid, and the same after a whole turn.
LEMMA PointOnGrid ==
    \A c \in GridPoint : \A half, e \in Int :
        /\ PointAt(c, 2 * half, e) \in GridPoint
        /\ \A f \in Int : e % 8 = f % 8 => PointAt(c, 2 * half, e) = PointAt(c, 2 * half, f)
<1> TAKE c \in GridPoint
<1> TAKE half, e \in Int
<1>1. c[1] \in Int /\ c[2] \in Int
  BY DEF GridPoint
<1> DEFINE p == PointAt(c, 2 * half, e)
<1>2. IsPoint(p, c, half, e % 8)
  BY PointIs
<1> HIDE DEF p
<1>3. p \in GridPoint
  BY <1>1, <1>2 DEF GridPoint, IsPoint
<1>4. ASSUME NEW f \in Int, e % 8 = f % 8 PROVE p = PointAt(c, 2 * half, f)
  <2> DEFINE q == PointAt(c, 2 * half, f)
  <2>1. IsPoint(q, c, half, f % 8)
    BY PointIs
  <2> HIDE DEF q
  <2>2. p = q
    BY <1>1, <1>2, <1>4, <2>1 DEF IsPoint
  <2> QED BY <2>2 DEF q
<1> QED BY <1>3, <1>4 DEF p

\* Between two neighbouring points of a circle lies an eighth of it, which is as long as its radius.
LEMMA EighthIs ==
    \A c \in GridPoint : \A half \in Nat : \A e \in Int :
        Span(PointAt(c, 2 * half, e), PointAt(c, 2 * half, e + 1)) = 2 * half
<1> TAKE c \in GridPoint
<1> TAKE half \in Nat
<1> TAKE e \in Int
<1> DEFINE p == PointAt(c, 2 * half, e)
           q == PointAt(c, 2 * half, e + 1)
<1>1. c[1] \in Int /\ c[2] \in Int /\ e + 1 \in Int /\ half \in Int
  BY DEF GridPoint
<1>2. e % 8 \in 0 .. 7 /\ (e + 1) % 8 = IF e % 8 = 7 THEN 0 ELSE (e % 8) + 1
  OBVIOUS
<1>3. IsPoint(p, c, half, e % 8) /\ IsPoint(q, c, half, (e + 1) % 8)
  BY <1>1, PointIs
<1> HIDE DEF p, q
<1>4. Span(p, q) = 2 * half
  BY <1>1, <1>2, <1>3 DEF Span, Abs, IsPoint
<1> QED BY <1>4 DEF p, q

\* What an arc consists of: it starts and ends where it should, and every eighth of it counts once.
LEMMA SegmentsIs ==
    \A radius \in Nat \ {0} : \A sweep \in (-8 .. 8) \ {0} :
        SegmentsForArc(radius, sweep) = IF Abs(sweep) = 1 THEN 2 ELSE Abs(sweep)
<1> TAKE radius \in Nat \ {0}
<1> TAKE sweep \in (-8 .. 8) \ {0}
<1> DEFINE a == Abs(sweep)
<1>1. a \in 1 .. 8
  BY DEF Abs
<1> HIDE DEF a
<1>2. a \div 1 = a
  BY <1>1
<1>3. Min({512, a}) = a
  BY <1>1 DEF Min
<1>4. Max({2, a}) = IF a = 1 THEN 2 ELSE a
  BY <1>1 DEF Max
<1>5. SegmentsForArc(radius, sweep) = Max({2, Min({512, a \div 1})})
  BY DEF SegmentsForArc, MaxSegments, MaxStep, a
<1> QED BY <1>2, <1>3, <1>4, <1>5 DEF a

\* What an arc consists of: it starts and ends where it should, and every eighth of it counts once.
IsArc(a, c, radius, start, sweep) ==
    /\ a \in Seq(GridPoint)
    /\ Len(a) > 2
    /\ a[1] = PointAt(c, radius, start)
    /\ a[Len(a)] = PointAt(c, radius, start + sweep)
    /\ SumOf(Steps(a)) = Abs(sweep) * radius

\* ArcPoints draws an arc: its ends, and a length of one radius for each eighth of a turn.
LEMMA ArcIs ==
    \A c \in GridPoint : \A half \in Nat \ {0} : \A start \in Int : \A sweep \in (-8 .. 8) \ {0} :
        IsArc(ArcPoints(c, 2 * half, start, sweep), c, 2 * half, start, sweep)
<1> TAKE c \in GridPoint
<1> TAKE half \in Nat \ {0}
<1> TAKE start \in Int
<1> TAKE sweep \in (-8 .. 8) \ {0}
<1> DEFINE radius == 2 * half
           count == IF Abs(sweep) = 1 THEN 2 ELSE Abs(sweep)
           at(i) == start + (sweep * (i - 1)) \div count
           a == [i \in 1 .. count + 1 |-> PointAt(c, radius, at(i))]
<1>1. count \in 2 .. 8 /\ Abs(sweep) \in 1 .. 8
  BY DEF Abs
<1>2. ArcPoints(c, radius, start, sweep) = a
  <2>1. SegmentsForArc(radius, sweep) = count
    BY SegmentsIs
  <2> HIDE DEF count
  <2> QED BY <2>1 DEF ArcPoints
<1>3. \A i \in 1 .. count + 1 : at(i) \in Int
  BY <1>1
<1>4. /\ at(1) = start /\ at(count + 1) = start + sweep
      /\ \A i \in 1 .. count : Abs(sweep) = 1 \/ at(i + 1) = at(i) + 1 \/ at(i) = at(i + 1) + 1
      /\ Abs(sweep) = 1 => at(2) = start \/ at(2) = start + sweep
  <2>1. CASE Abs(sweep) = 1
    <3>1. count = 2 /\ (sweep = 1 \/ sweep = -1)
      BY <2>1 DEF Abs
    <3> HIDE DEF count
    <3> QED BY <2>1, <3>1
  <2>2. CASE Abs(sweep) # 1
    <3>1. (sweep = count \/ sweep = -count) /\ count \in 2 .. 8
      BY <2>2 DEF Abs
    <3> HIDE DEF count
    <3>2. \A i \in Int : (sweep = count => (sweep * i) \div count = i) /\ (sweep = -count => (sweep * i) \div count = -i)
      <4> TAKE i \in Int
      <4>1. /\ (2 * i) \div 2 = i /\ (3 * i) \div 3 = i /\ (4 * i) \div 4 = i /\ (5 * i) \div 5 = i
            /\ (6 * i) \div 6 = i /\ (7 * i) \div 7 = i /\ (8 * i) \div 8 = i
        OBVIOUS
      <4>2. /\ ((-2) * i) \div 2 = -i /\ ((-3) * i) \div 3 = -i /\ ((-4) * i) \div 4 = -i /\ ((-5) * i) \div 5 = -i
            /\ ((-6) * i) \div 6 = -i /\ ((-7) * i) \div 7 = -i /\ ((-8) * i) \div 8 = -i
        OBVIOUS
      <4>3. count = 2 \/ count = 3 \/ count = 4 \/ count = 5 \/ count = 6 \/ count = 7 \/ count = 8
        BY <3>1
      <4> QED BY <3>1, <4>1, <4>2, <4>3
    <3>3. \A i \in Int : (sweep = count => at(i) = start + (i - 1)) /\ (sweep = -count => at(i) = start - (i - 1))
      <4> TAKE i \in Int
      <4>1. i - 1 \in Int
        OBVIOUS
      <4>2. (sweep = count => (sweep * (i - 1)) \div count = i - 1) /\ (sweep = -count => (sweep * (i - 1)) \div count = -(i - 1))
        BY <3>2, <4>1
      <4> DEFINE d == (sweep * (i - 1)) \div count
      <4> HIDE DEF d
      <4> QED BY <3>1, <4>2 DEF d
    <3> HIDE DEF at
    <3>4. at(1) = start /\ at(count + 1) = start + sweep
      BY <3>1, <3>3
    <3>5. \A i \in 1 .. count : at(i + 1) = at(i) + 1 \/ at(i) = at(i + 1) + 1
      BY <3>1, <3>3
    <3> QED BY <2>2, <3>4, <3>5
  <2> QED BY <2>1, <2>2
<1> HIDE DEF at, count
<1>5. \A i \in 1 .. count + 1 : PointAt(c, radius, at(i)) \in GridPoint
  BY <1>3, PointOnGrid
<1>6. a \in Seq(GridPoint) /\ Len(a) = count + 1 /\ \A i \in 1 .. count + 1 : a[i] = PointAt(c, radius, at(i))
  BY <1>1, <1>5
<1> HIDE DEF a
<1>7. a[1] = PointAt(c, radius, start) /\ a[Len(a)] = PointAt(c, radius, start + sweep) /\ Len(a) > 2
  BY <1>1, <1>4, <1>6
<1> DEFINE s == Steps(a)
<1>8. s \in Seq(Int) /\ Len(s) = count /\ \A i \in 1 .. count : s[i] = Span(a[i], a[i + 1])
  <2>1. Len(a) > 0 /\ Len(a) - 1 = count
    BY <1>1, <1>6
  <2>2. s \in Seq(Int) /\ Len(s) = Len(a) - 1 /\ \A i \in 1 .. Len(a) - 1 : s[i] = Span(a[i], a[i + 1])
    BY <1>6, <2>1, StepsAre, Zenon
  <2> HIDE DEF s
  <2> QED BY <2>1, <2>2
<1> HIDE DEF s
<1>9. \A e, f \in Int : e = f + 1 \/ f = e + 1 => Span(PointAt(c, radius, e), PointAt(c, radius, f)) = radius
  <2> TAKE e, f \in Int
  <2>1. half \in Nat /\ half \in Int
    OBVIOUS
  <2>2. CASE f = e + 1
    BY <2>1, <2>2, EighthIs
  <2>3. CASE e = f + 1
    <3> DEFINE p == PointAt(c, radius, e)
               q == PointAt(c, radius, f)
    <3>1. Span(q, p) = radius
      BY <2>1, <2>3, EighthIs
    <3>2. p \in GridPoint /\ q \in GridPoint
      BY <2>1, PointOnGrid
    <3> HIDE DEF p, q
    <3>3. Span(p, q) = radius
      BY <3>1, <3>2, SpanIs
    <3> QED BY <3>3 DEF p, q
  <2> QED BY <2>2, <2>3
<1>10. CASE Abs(sweep) = 1
  <2>1. count = 2
    BY <1>10 DEF count
  <2>2. sweep = 1 \/ sweep = -1
    BY <1>10 DEF Abs
  <2>3. s[1] = Span(PointAt(c, radius, start), PointAt(c, radius, at(2))) /\ s[2] = Span(PointAt(c, radius, at(2)), PointAt(c, radius, start + sweep))
    BY <1>4, <1>6, <1>8, <2>1
  <2>4. Span(PointAt(c, radius, start), PointAt(c, radius, start + sweep)) = radius
    BY <1>9, <2>2
  <2>5. \A e \in Int : Span(PointAt(c, radius, e), PointAt(c, radius, e)) = 0
    BY SpanIs, PointOnGrid
  <2>6. s[1] + s[2] = radius
    BY <1>4, <1>10, <2>2, <2>3, <2>4, <2>5
  <2>7. SumOf(s) = s[1] + s[2]
    BY <1>8, <2>1, SumTwo
  <2> QED BY <1>2, <1>6, <1>7, <1>10, <2>6, <2>7 DEF IsArc, s
<1>11. CASE Abs(sweep) # 1
  <2>1. count = Abs(sweep)
    BY <1>11 DEF count
  <2>2. \A i \in 1 .. Len(s) : s[i] = radius
    <3> TAKE i \in 1 .. Len(s)
    <3>1. i \in 1 .. count /\ i \in 1 .. count + 1 /\ i + 1 \in 1 .. count + 1
      BY <1>1, <1>8
    <3>2. s[i] = Span(PointAt(c, radius, at(i)), PointAt(c, radius, at(i + 1)))
      BY <1>6, <1>8, <3>1
    <3>3. at(i) \in Int /\ at(i + 1) \in Int /\ (at(i + 1) = at(i) + 1 \/ at(i) = at(i + 1) + 1)
      BY <1>3, <1>4, <1>11, <3>1
    <3> QED BY <1>9, <3>2, <3>3
  <2>3. SumOf(s) = Len(s) * radius
    <3>1. radius \in Int
      OBVIOUS
    <3> HIDE DEF radius
    <3> QED BY <1>8, <2>2, <3>1, SumConstant
  <2> QED BY <1>2, <1>6, <1>7, <1>8, <2>1, <2>3 DEF IsArc, s
<1> QED BY <1>10, <1>11

-----------------------------------------------------------------------------
(* Bulges *)

\* The points of a bulge of the grid: its centre, its radius and the angle it starts at are the ones
\* the model finds from its ends.
Bulge(from, to, bulge, c, half, e) ==
    /\ c \in GridPoint /\ half \in Nat \ {0} /\ e \in 0 .. 7
    /\ bulge \in {-6, -4, -2, 2, 4, 6}
    /\ IsPoint(from, c, half, e)
    /\ IsPoint(to, c, half, (e + bulge) % 8)

\* A bulge on the grid is an arc about some centre.
LEMMA BulgeOnGrid ==
    \A from, to \in GridPoint : \A bulge \in Int :
        OnGrid(from, to, bulge) /\ bulge # 0 /\ from # to =>
            \E c, half, e : Bulge(from, to, bulge, c, half, e)
<1> TAKE from, to \in GridPoint
<1> TAKE bulge \in Int
<1> HAVE OnGrid(from, to, bulge) /\ bulge # 0 /\ from # to
<1>1. Abs(bulge) \in {2, 4, 6} /\ Span(from, to) \in Nat
  BY SpanIs DEF OnGrid
<1>2. bulge \in {-6, -4, -2, 2, 4, 6}
  BY <1>1 DEF Abs
<1>3. PICK e \in 0 .. 7, half \in 1 .. Span(from, to) :
          to = PointAt(<<from[1] - half * Cosine(e), from[2] - half * Cosine(e - 2)>>, 2 * half, e + bulge)
  BY DEF OnGrid
<1> DEFINE x == Cosine(e)
           y == Cosine(e - 2)
           c == <<from[1] - half * x, from[2] - half * y>>
<1>4. half \in Nat \ {0} /\ half \in Int /\ e \in Int /\ e + bulge \in Int /\ e % 8 = e
  BY <1>1
<1>5. from[1] \in Int /\ from[2] \in Int /\ from = <<from[1], from[2]>>
  BY DEF GridPoint
<1>6. \/ e = 0 /\ x = 2 /\ y = 0
      \/ e = 1 /\ x = 1 /\ y = 1
      \/ e = 2 /\ x = 0 /\ y = 2
      \/ e = 3 /\ x = -1 /\ y = 1
      \/ e = 4 /\ x = -2 /\ y = 0
      \/ e = 5 /\ x = -1 /\ y = -1
      \/ e = 6 /\ x = 0 /\ y = -2
      \/ e = 7 /\ x = 1 /\ y = -1
  BY <1>4, CosineIs
<1> HIDE DEF x, y
<1>7. c \in GridPoint
  BY <1>4, <1>5, <1>6 DEF GridPoint
<1>8. IsPoint(from, c, half, e)
  BY <1>4, <1>5, <1>6 DEF IsPoint
<1>9. to = PointAt(c, 2 * half, e + bulge)
  BY <1>3 DEF x, y
<1> HIDE DEF c
<1>10. IsPoint(to, c, half, (e + bulge) % 8)
  BY <1>4, <1>7, <1>9, PointIs
<1>11. Bulge(from, to, bulge, c, half, e)
  BY <1>2, <1>4, <1>7, <1>8, <1>10 DEF Bulge
<1> QED BY <1>11

\* The absolute value of an integer.
LEMMA AbsIs == \A n \in Int : Abs(n) \in Nat /\ (n >= 0 => Abs(n) = n) /\ (n < 0 => Abs(n) = -n)
BY DEF Abs

\* The same in coordinates.
HasCoordinates(x, y, cx, cy, half, k) ==
    \/ k = 0 /\ x = cx + 2 * half /\ y = cy
    \/ k = 1 /\ x = cx + half /\ y = cy + half
    \/ k = 2 /\ x = cx /\ y = cy + 2 * half
    \/ k = 3 /\ x = cx - half /\ y = cy + half
    \/ k = 4 /\ x = cx - 2 * half /\ y = cy
    \/ k = 5 /\ x = cx - half /\ y = cy - half
    \/ k = 6 /\ x = cx /\ y = cy - 2 * half
    \/ k = 7 /\ x = cx + half /\ y = cy - half

\* A point of a diamond, coordinate by coordinate.
LEMMA Coordinates ==
    \A p, c \in GridPoint : \A half, k : IsPoint(p, c, half, k) => HasCoordinates(p[1], p[2], c[1], c[2], half, k)
BY DEF IsPoint, HasCoordinates, GridPoint

\* A quarter turn, to the left or to the right.
Quarter(p, q, c, half, e) ==
    /\ p \in GridPoint /\ q \in GridPoint /\ c \in GridPoint /\ half \in Nat /\ e \in 0 .. 7
    /\ IsPoint(p, c, half, e)
    /\ IsPoint(q, c, half, IF e < 6 THEN e + 2 ELSE e - 6)
Opposite(p, q, c) ==
    p[1] + q[1] - (q[2] - p[2]) = 2 * c[1] /\ p[2] + q[2] + (q[1] - p[1]) = 2 * c[2]

\* The ends of a quarter of a turn fix its centre.
LEMMA QuarterTurn == \A p, q, c, half, e : Quarter(p, q, c, half, e) => Opposite(p, q, c)
<1> TAKE p, q, c, half, e
<1> HAVE Quarter(p, q, c, half, e)
<1>1. /\ p \in GridPoint /\ q \in GridPoint /\ c \in GridPoint /\ half \in Nat /\ e \in 0 .. 7
      /\ HasCoordinates(p[1], p[2], c[1], c[2], half, e)
      /\ HasCoordinates(q[1], q[2], c[1], c[2], half, IF e < 6 THEN e + 2 ELSE e - 6)
  BY Coordinates DEF Quarter
<1>2. /\ p[1] \in Int /\ p[2] \in Int /\ q[1] \in Int /\ q[2] \in Int /\ c[1] \in Int /\ c[2] \in Int
      /\ half \in Nat /\ e \in 0 .. 7
  BY <1>1 DEF GridPoint
<1> DEFINE x == p[1]
           y == p[2]
           a == q[1]
           b == q[2]
           cx == c[1]
           cy == c[2]
<1> HIDE DEF x, y, a, b, cx, cy
<1>3. /\ x \in Int /\ y \in Int /\ a \in Int /\ b \in Int /\ cx \in Int /\ cy \in Int
      /\ HasCoordinates(x, y, cx, cy, half, e)
      /\ HasCoordinates(a, b, cx, cy, half, IF e < 6 THEN e + 2 ELSE e - 6)
  BY <1>1, <1>2 DEF x, y, a, b, cx, cy
<1>4. x + a - (b - y) = 2 * cx /\ y + b + (a - x) = 2 * cy
  BY <1>2, <1>3 DEF HasCoordinates
<1> QED BY <1>4 DEF Opposite, x, y, a, b, cx, cy

\* Centre, radius, angles and length that the code computes for a bulge are those of its arc.
LEMMA BulgeMeasures ==
    \A from, to \in GridPoint : \A bulge, c, half, e :
        Bulge(from, to, bulge, c, half, e) =>
            /\ Centre(from, to, bulge) = c
            /\ Span(from, c) = 2 * half
            /\ \A f \in 0 .. 7 : PointAt(c, 2 * half, f) = from <=> f = e
            /\ PointAt(c, 2 * half, e + bulge) = to
            /\ ArcLength(from, to, bulge) = Abs(bulge) * (2 * half)
<1> TAKE from, to \in GridPoint
<1> TAKE bulge, c, half, e
<1> HAVE Bulge(from, to, bulge, c, half, e)
<1> DEFINE k == (e + bulge) % 8
<1>1. /\ c \in GridPoint /\ half \in Nat \ {0} /\ e \in 0 .. 7 /\ bulge \in {-6, -4, -2, 2, 4, 6}
      /\ half \in Int /\ bulge \in Int /\ e + bulge \in Int
  BY DEF Bulge
<1>2. IsPoint(from, c, half, e) /\ IsPoint(to, c, half, k)
  BY DEF Bulge
<1>3. /\ c[1] \in Int /\ c[2] \in Int /\ c = <<c[1], c[2]>>
      /\ from[1] \in Int /\ from[2] \in Int /\ to[1] \in Int /\ to[2] \in Int
  BY <1>1 DEF GridPoint
<1>4. \/ bulge = 2 /\ k = IF e < 6 THEN e + 2 ELSE e - 6
      \/ bulge = -6 /\ k = IF e < 6 THEN e + 2 ELSE e - 6
      \/ bulge = 4 /\ k = IF e < 4 THEN e + 4 ELSE e - 4
      \/ bulge = -4 /\ k = IF e < 4 THEN e + 4 ELSE e - 4
      \/ bulge = 6 /\ k = IF e < 2 THEN e + 6 ELSE e - 2
      \/ bulge = -2 /\ k = IF e < 2 THEN e + 6 ELSE e - 2
  <2>1. CASE bulge = 2
    BY <1>1, <2>1
  <2>2. CASE bulge = -6
    BY <1>1, <2>2
  <2>3. CASE bulge = 4
    BY <1>1, <2>3
  <2>4. CASE bulge = -4
    BY <1>1, <2>4
  <2>5. CASE bulge = 6
    BY <1>1, <2>5
  <2>6. CASE bulge = -2
    BY <1>1, <2>6
  <2> QED BY <1>1, <2>1, <2>2, <2>3, <2>4, <2>5, <2>6
<1> HIDE DEF k
<1>5. Centre(from, to, bulge) = c
  <2> DEFINE offset == IF Abs(bulge) = 4 THEN 0 ELSE
                         IF Abs(bulge) > 4 THEN -(IF bulge > 0 THEN 1 ELSE -1) ELSE (IF bulge > 0 THEN 1 ELSE -1)
             x == from[1] + to[1] - offset * (to[2] - from[2])
             y == from[2] + to[2] + offset * (to[1] - from[1])
  <2>1. Centre(from, to, bulge) = <<x \div 2, y \div 2>>
    BY DEF Centre
  <2>2. \/ bulge \in {4, -4} /\ offset = 0
        \/ bulge \in {2, -6} /\ offset = 1
        \/ bulge \in {6, -2} /\ offset = -1
    <3>1. (bulge >= 0 => Abs(bulge) = bulge) /\ (bulge < 0 => Abs(bulge) = -bulge)
      BY <1>1, AbsIs
    <3> DEFINE size == Abs(bulge)
    <3> HIDE DEF size
    <3>2. offset = IF size = 4 THEN 0 ELSE IF size > 4 THEN -(IF bulge > 0 THEN 1 ELSE -1) ELSE (IF bulge > 0 THEN 1 ELSE -1)
      BY DEF size
    <3>3. (bulge >= 0 => size = bulge) /\ (bulge < 0 => size = -bulge)
      BY <3>1 DEF size
    <3> HIDE DEF offset
    <3>4. bulge \in {6, -6, 4, -4, 2, -2}
      BY <1>1
    <3>5. CASE bulge = 6 \/ bulge = -6
      <4>1. size = 6
        BY <3>3, <3>5
      <4>2. offset = -(IF bulge > 0 THEN 1 ELSE -1)
        BY <3>2, <4>1
      <4>3. CASE bulge = 6
        BY <4>2, <4>3
      <4>4. CASE bulge = -6
        <5>1. ~(bulge > 0)
          BY <4>4
        <5> DEFINE sign == IF bulge > 0 THEN 1 ELSE -1
        <5>2. sign + 1 = 0 /\ sign \in Int
          BY <5>1
        <5>3. offset = -sign
          BY <4>2
        <5> HIDE DEF sign
        <5>4. offset = 1
          BY <5>2, <5>3
        <5> QED BY <4>4, <5>4
      <4> QED BY <3>5, <4>3, <4>4
    <3>6. CASE bulge = 4 \/ bulge = -4
      <4>1. size = 4
        BY <3>3, <3>6
      <4> QED BY <3>2, <3>6, <4>1
    <3>7. CASE bulge = 2 \/ bulge = -2
      <4>1. size = 2
        BY <3>3, <3>7
      <4> QED BY <3>2, <3>7, <4>1
    <3> QED BY <3>4, <3>5, <3>6, <3>7
  <2> HIDE DEF offset
  <2>3. x = 2 * c[1] /\ y = 2 * c[2]
    <3>1. CASE bulge \in {4, -4} /\ offset = 0
      <4>1. x = from[1] + to[1] /\ y = from[2] + to[2]
        BY <1>3, <3>1
      <4> HIDE DEF x, y
      <4> QED BY <1>1, <1>2, <1>3, <1>4, <3>1, <4>1 DEF IsPoint
    <3>2. CASE bulge \in {2, -6} /\ offset = 1
      <4>1. x = from[1] + to[1] - (to[2] - from[2]) /\ y = from[2] + to[2] + (to[1] - from[1])
        BY <1>3, <3>2
      <4>2. k = IF e < 6 THEN e + 2 ELSE e - 6
        BY <1>4, <3>2
      <4> HIDE DEF x, y
      <4>3. Quarter(from, to, c, half, e)
        BY <1>1, <1>2, <4>2 DEF Quarter
      <4>4. Opposite(from, to, c)
        BY <4>3, QuarterTurn, Zenon
      <4> QED BY <1>3, <4>1, <4>4 DEF Opposite
    <3>3. CASE bulge \in {6, -2} /\ offset = -1
      <4>1. x = from[1] + to[1] + (to[2] - from[2]) /\ y = from[2] + to[2] - (to[1] - from[1])
        BY <1>3, <3>3
      <4>2. k = IF e < 2 THEN e + 6 ELSE e - 2
        BY <1>4, <3>3
      <4> HIDE DEF x, y
      <4>3. k \in 0 .. 7 /\ e = IF k < 6 THEN k + 2 ELSE k - 6
        BY <1>1, <4>2
      <4>4. Quarter(to, from, c, half, k)
        BY <1>1, <1>2, <4>3 DEF Quarter
      <4>5. Opposite(to, from, c)
        BY <4>4, QuarterTurn, Zenon
      <4> QED BY <1>3, <4>1, <4>5 DEF Opposite
    <3> QED BY <2>2, <3>1, <3>2, <3>3
  <2> HIDE DEF x, y
  <2>4. x \div 2 = c[1] /\ y \div 2 = c[2]
    BY <1>3, <2>3
  <2> QED BY <1>3, <2>1, <2>4
<1>6. Span(from, c) = 2 * half
  BY <1>1, <1>2, <1>3 DEF IsPoint, Span, Abs
<1>7. \A f \in 0 .. 7 : PointAt(c, 2 * half, f) = from <=> f = e
  <2> TAKE f \in 0 .. 7
  <2> DEFINE p == PointAt(c, 2 * half, f)
  <2>1. f \in Int /\ f % 8 = f
    OBVIOUS
  <2>2. IsPoint(p, c, half, f)
    BY <1>1, <2>1, PointIs
  <2> HIDE DEF p
  <2>3. p = from <=> f = e
    BY <1>1, <1>2, <1>3, <2>2 DEF IsPoint
  <2> QED BY <2>3 DEF p
<1>8. PointAt(c, 2 * half, e + bulge) = to
  <2> DEFINE p == PointAt(c, 2 * half, e + bulge)
  <2>1. IsPoint(p, c, half, k)
    BY <1>1, PointIs DEF k
  <2> HIDE DEF p
  <2>2. p = to
    BY <1>1, <1>2, <1>3, <2>1 DEF IsPoint
  <2> QED BY <2>2 DEF p
<1>9. ArcLength(from, to, bulge) = Abs(bulge) * (2 * half)
  <2>1. from # to /\ bulge # 0
    BY <1>1, <1>2, <1>3, <1>4 DEF IsPoint
  <2>2. CASE Abs(bulge) = 4
    <3>1. bulge \in {4, -4}
      BY <1>1, <2>2 DEF Abs
    <3>2. Span(from, to) = 4 * half
      <4>1. k = IF e < 4 THEN e + 4 ELSE e - 4
        BY <1>4, <3>1
      <4> QED BY <1>1, <1>2, <1>3, <4>1, SMTT(60) DEF IsPoint, Span, Abs
    <3>3. 4 * ((4 * half) \div 2) = 4 * (2 * half)
      BY <1>1
    <3> QED BY <2>1, <2>2, <3>2, <3>3 DEF ArcLength
  <2>3. CASE Abs(bulge) # 4
    <3>1. bulge \in {2, 6, -2, -6}
      BY <1>1, <2>3 DEF Abs
    <3> DEFINE dx == Abs(from[1] - to[1])
               dy == Abs(from[2] - to[2])
    <3>2. (dx = 2 * half /\ dy = 0) \/ (dx = 0 /\ dy = 2 * half) \/ (dx = 2 * half /\ dy = 2 * half)
      <4>1. k = (IF e < 6 THEN e + 2 ELSE e - 6) \/ k = (IF e < 2 THEN e + 6 ELSE e - 2)
        BY <1>4, <3>1
      <4> QED BY <1>1, <1>2, <1>3, <4>1, SMTT(60) DEF IsPoint, Abs
    <3> HIDE DEF dx, dy
    <3>3. Max({dx, dy}) = 2 * half
      BY <1>1, <3>2 DEF Max
    <3> QED BY <2>1, <2>3, <3>3 DEF ArcLength, dx, dy
  <2> QED BY <2>2, <2>3
<1> QED BY <1>5, <1>6, <1>7, <1>8, <1>9

\* A path is its first point and the others.
LEMMA HeadTail ==
    \A a \in Seq(GridPoint) :
        Len(a) > 1 =>
            /\ Tail(a) \in Seq(GridPoint)
            /\ Len(Tail(a)) = Len(a) - 1
            /\ Tail(a)[Len(a) - 1] = a[Len(a)]
            /\ <<a[1]>> \o Tail(a) = a
<1> TAKE a \in Seq(GridPoint)
<1> HAVE Len(a) > 1
<1> DEFINE n == Len(a)
           t == Tail(a)
           h == <<a[1]>>
           b == h \o t
<1>1. n \in Nat /\ n > 1 /\ a[1] \in GridPoint
  OBVIOUS
<1>2. t \in Seq(GridPoint) /\ Len(t) = n - 1 /\ \A i \in 1 .. n - 1 : t[i] = a[i + 1]
  OBVIOUS
<1>3. h \in Seq(GridPoint) /\ Len(h) = 1 /\ h[1] = a[1]
  BY <1>1, OneElement, Zenon
<1>4. b \in Seq(GridPoint) /\ After(b, h, t)
  BY <1>2, <1>3, ConcatIs, Zenon
<1> HIDE DEF n, t, h, b
<1>5. Len(b) = n /\ b[1] = a[1] /\ \A i \in 1 .. n - 1 : b[1 + i] = a[i + 1]
  <2>1. Len(b) = Len(h) + Len(t) /\ b[1] = h[1]
    BY <1>3, <1>4 DEF After
  <2>2. ASSUME NEW i \in 1 .. n - 1 PROVE b[1 + i] = a[i + 1]
    BY <1>2, <1>3, <1>4 DEF After
  <2> QED BY <1>1, <1>2, <1>3, <2>1, <2>2
<1>6. ASSUME NEW i \in 1 .. n PROVE b[i] = a[i]
  <2>1. CASE i = 1
    BY <1>5, <2>1
  <2>2. CASE i # 1
    <3>1. i - 1 \in 1 .. n - 1 /\ 1 + (i - 1) = i /\ (i - 1) + 1 = i
      BY <1>1, <2>2
    <3>2. b[1 + (i - 1)] = a[(i - 1) + 1]
      BY <1>5, <3>1
    <3> QED BY <3>1, <3>2
  <2> QED BY <2>1, <2>2
<1>7. b = a
  BY <1>4, <1>5, <1>6, SameSequence DEF n
<1>8. t[n - 1] = a[n]
  <2>1. n - 1 \in 1 .. n - 1 /\ (n - 1) + 1 = n
    BY <1>1
  <2> QED BY <1>2, <2>1
<1> QED BY <1>2, <1>7, <1>8 DEF n, t, h, b

\* What leads from one point to the next: it ends there, and has the length of the leg.
IsLeg(q, from, to, length) ==
    /\ q \in Seq(GridPoint) /\ Len(q) > 0
    /\ q[Len(q)] = to
    /\ SumOf(Steps(<<from>> \o q)) = length

\* BulgeArcPoints goes from one vertex to the other, along the arc's length.
LEMMA BulgeIs ==
    \A from, to \in GridPoint : \A bulge \in Int :
        OnGrid(from, to, bulge) =>
            /\ IsLeg(BulgeArcPoints(from, to, bulge), from, to, ArcLength(from, to, bulge))
            /\ IF bulge = 0 \/ from = to
               THEN BulgeArcPoints(from, to, bulge) = <<to>> /\ ArcLength(from, to, bulge) = Span(from, to)
               ELSE Len(BulgeArcPoints(from, to, bulge)) > 1
<1> TAKE from, to \in GridPoint
<1> TAKE bulge \in Int
<1> HAVE OnGrid(from, to, bulge)
<1> DEFINE q == BulgeArcPoints(from, to, bulge)
           length == ArcLength(from, to, bulge)
<1>1. CASE bulge = 0 \/ from = to
  <2>1. q = <<to>>
    BY <1>1 DEF BulgeArcPoints
  <2>2. length = Span(from, to)
    BY <1>1 DEF ArcLength
  <2>3. <<to>> \in Seq(GridPoint) /\ Len(<<to>>) = 1 /\ <<to>>[1] = to
    BY OneElement, Zenon
  <2>4. SumOf(Steps(<<from>> \o <<to>>)) = Span(from, to)
    <3>1. <<from>> \in Seq(GridPoint) /\ Len(<<from>>) = 1 /\ <<from>>[1] = from
      BY OneElement, Zenon
    <3>2. Len(<<from>>) > 0 /\ Span(from, to) \in Int
      BY <3>1, SpanIs
    <3>3. SumOf(Steps(<<from>> \o <<to>>)) = SumOf(Steps(<<from>>)) + Span(<<from>>[Len(<<from>>)], to)
      BY <3>1, <3>2, LengthAppend, Zenon
    <3>4. SumOf(Steps(<<from>>)) = 0
      BY LengthOne
    <3> QED BY <3>1, <3>2, <3>3, <3>4
  <2> QED BY <1>1, <2>1, <2>2, <2>3, <2>4 DEF IsLeg
<1>2. CASE ~(bulge = 0 \/ from = to)
  <2>1. PICK c, half, e : Bulge(from, to, bulge, c, half, e)
    BY <1>2, BulgeOnGrid
  <2>2. /\ Centre(from, to, bulge) = c
        /\ Span(from, c) = 2 * half
        /\ \A f \in 0 .. 7 : PointAt(c, 2 * half, f) = from <=> f = e
        /\ PointAt(c, 2 * half, e + bulge) = to
        /\ length = Abs(bulge) * (2 * half)
    BY <2>1, BulgeMeasures
  <2>3. c \in GridPoint /\ half \in Nat \ {0} /\ e \in 0 .. 7 /\ e \in Int /\ bulge \in (-8 .. 8) \ {0}
    BY <2>1 DEF Bulge
  <2> DEFINE a == ArcPoints(c, 2 * half, e, bulge)
  <2>4. (CHOOSE f \in 0 .. 7 : PointAt(c, 2 * half, f) = from) = e
    BY <2>2, <2>3
  <2>5. q = Tail(a)
    BY <1>2, <2>2, <2>4 DEF BulgeArcPoints
  <2>6. IsArc(a, c, 2 * half, e, bulge)
    BY <2>3, ArcIs
  <2> HIDE DEF a, q, length
  <2>7. a \in Seq(GridPoint) /\ Len(a) > 2 /\ a[1] = from /\ a[Len(a)] = to /\ SumOf(Steps(a)) = length
    BY <2>2, <2>3, <2>6 DEF IsArc
  <2>8. Len(a) > 1 /\ Len(a) \in Nat
    BY <2>7
  <2>9. q \in Seq(GridPoint) /\ Len(q) = Len(a) - 1 /\ q[Len(a) - 1] = a[Len(a)] /\ <<a[1]>> \o q = a
    BY <2>5, <2>7, <2>8, HeadTail, Zenon
  <2>10. Len(q) > 1 /\ Len(q) > 0
    <3>1. Len(q) = Len(a) - 1
      BY <2>9
    <3> QED BY <2>7, <2>8, <3>1
  <2>11. IsLeg(q, from, to, length)
    BY <2>7, <2>9, <2>10 DEF IsLeg
  <2> QED BY <1>2, <2>10, <2>11 DEF q, length
<1> QED BY <1>1, <1>2

\* A leg's length is a number.
LEMMA LegIsNumber ==
    \A q, length : \A from, to \in GridPoint : IsLeg(q, from, to, length) => length \in Int
<1> TAKE q, length
<1> TAKE from, to \in GridPoint
<1> HAVE IsLeg(q, from, to, length)
<1> DEFINE h == <<from>>
           a == h \o q
<1>1. h \in Seq(GridPoint) /\ Len(h) = 1 /\ q \in Seq(GridPoint)
  BY OneElement DEF IsLeg
<1> HIDE DEF h
<1>2. a \in Seq(GridPoint) /\ After(a, h, q)
  BY <1>1, ConcatIs, Zenon
<1> HIDE DEF a
<1>3. Len(a) > 0
  BY <1>1, <1>2 DEF After
<1>4. Steps(a) \in Seq(Int)
  BY <1>2, <1>3, StepsAre
<1> QED BY <1>4, SumIs DEF IsLeg, a, h

-----------------------------------------------------------------------------
(* Paths of vertices *)

\* Vertices with arcs of the grid between them.
Drawn(v) ==
    /\ v \in Seq(Vertex)
    /\ \A i \in 1 .. Len(v) - 1 : OnGrid(At2D(v[i]), At2D(v[i + 1]), v[i].bulge)

\* A vertex is a point of the grid with a bulge.
LEMMA VertexIs == \A v \in Vertex : At2D(v) \in GridPoint /\ v.bulge \in Int
BY DEF Vertex, At2D, GridPoint

\* The arc that leads to a vertex from the one before.
ArcTo(v, i) == BulgeArcPoints(At2D(v[i - 1]), At2D(v[i]), v[i - 1].bulge)

\* The points pushed for a vertex lead to it from the one before, along their leg's length.
LEMMA ArcToIs ==
    \A v : Drawn(v) => \A i \in 2 .. Len(v) :
        /\ IsLeg(ArcTo(v, i), At2D(v[i - 1]), At2D(v[i]), LegLength(v, i - 1, i))
        /\ LegLength(v, i - 1, i) \in Int
<1> TAKE v
<1> HAVE Drawn(v)
<1> TAKE i \in 2 .. Len(v)
<1>1. v \in Seq(Vertex) /\ Len(v) \in Nat
  BY DEF Drawn
<1>2. v[i - 1] \in Vertex /\ v[i] \in Vertex
  BY <1>1
<1>3. At2D(v[i - 1]) \in GridPoint /\ At2D(v[i]) \in GridPoint /\ v[i - 1].bulge \in Int
  BY <1>2, VertexIs
<1>4. OnGrid(At2D(v[i - 1]), At2D(v[i]), v[i - 1].bulge)
  <2>1. i - 1 \in 1 .. Len(v) - 1 /\ (i - 1) + 1 = i
    BY <1>1
  <2>2. OnGrid(At2D(v[i - 1]), At2D(v[(i - 1) + 1]), v[i - 1].bulge)
    BY <2>1 DEF Drawn
  <2> QED BY <2>1, <2>2
<1>5. IsLeg(ArcTo(v, i), At2D(v[i - 1]), At2D(v[i]), LegLength(v, i - 1, i))
  BY <1>3, <1>4, BulgeIs DEF ArcTo, LegLength
<1> QED BY <1>3, <1>5, LegIsNumber

\* Paths is the recursion it is defined by.
LEMMA PathsFollow ==
    \A v : Drawn(v) /\ Len(v) > 0 =>
        /\ Paths(v) \in [1 .. Len(v) -> Seq(GridPoint)]
        /\ Paths(v)[1] = <<At2D(v[1])>>
        /\ \A i \in 2 .. Len(v) : Paths(v)[i] = Paths(v)[i - 1] \o ArcTo(v, i)
<1> TAKE v
<1> HAVE Drawn(v) /\ Len(v) > 0
<1> DEFINE n == Len(v)
           S == Seq(GridPoint)
           first == <<At2D(v[1])>>
           F == [i \in 2 .. n |-> [p \in S |-> p \o ArcTo(v, i)]]
           Is(f) == f = [i \in 1 .. Len(v) |-> IF i = 1 THEN <<At2D(v[1])>>
                            ELSE f[i - 1] \o BulgeArcPoints(At2D(v[i - 1]), At2D(v[i]), v[i - 1].bulge)]
<1>1. n \in Nat /\ 1 <= n /\ first \in S
  <2>1. v \in Seq(Vertex) /\ n \in Nat /\ 1 <= n
    BY DEF Drawn
  <2>2. v[1] \in Vertex
    BY <2>1
  <2> QED BY <2>1, <2>2, VertexIs, OneElement
<1>2. \A i \in 2 .. n : ArcTo(v, i) \in S
  BY ArcToIs DEF IsLeg
<1>3. F \in [2 .. n -> [S -> S]]
  <2>1. \A i \in 2 .. n : \A p \in S : p \o ArcTo(v, i) \in S
    BY <1>2, ConcatIs
  <2> QED BY <2>1
<1>4. \E f : Follows(S, 1, n, first, F, f)
  <2>1. Recursive(S, 1, n, first, F)
    <3>1. 2 .. n = 1 + 1 .. n /\ 1 \in Nat
      OBVIOUS
    <3> HIDE DEF F, S, first, n
    <3> QED BY <1>1, <1>3, <3>1 DEF Recursive
  <2> HIDE DEF F, S, first, n
  <2> QED BY <2>1, Recursion
<1>5. \E f : Is(f)
  <2>1. PICK f : Follows(S, 1, n, first, F, f)
    BY <1>4
  <2>2. f \in [1 .. n -> S] /\ f[1] = first /\ \A i \in 2 .. n : f[i] = F[i][f[i - 1]]
    <3>1. 2 .. n = 1 + 1 .. n
      OBVIOUS
    <3> HIDE DEF F, S, first, n
    <3> QED BY <2>1, <3>1 DEF Follows
  <2>3. \A i \in 1 .. n : f[i] = IF i = 1 THEN first ELSE f[i - 1] \o ArcTo(v, i)
    <3> TAKE i \in 1 .. n
    <3>1. CASE i = 1
      BY <2>2, <3>1
    <3>2. CASE i # 1
      <4>1. i \in 2 .. n /\ i - 1 \in 1 .. n
        BY <1>1, <3>2
      <4>2. F[i] = [p \in S |-> p \o ArcTo(v, i)] /\ f[i - 1] \in S
        BY <2>2, <4>1
      <4> HIDE DEF F, S
      <4> QED BY <2>2, <3>2, <4>1, <4>2
    <3> QED BY <3>1, <3>2
  <2>4. f = [i \in 1 .. n |-> f[i]]
    BY <2>2
  <2>5. Is(f)
    BY <2>3, <2>4 DEF ArcTo
  <2> HIDE DEF Is
  <2> QED BY <2>5
<1>6. Is(Paths(v))
  <2>1. Paths(v) = CHOOSE f : Is(f)
    BY DEF Paths
  <2> HIDE DEF Is
  <2> QED BY <1>5, <2>1
<1> DEFINE g == Paths(v)
<1>7. g = [i \in 1 .. n |-> IF i = 1 THEN first ELSE g[i - 1] \o ArcTo(v, i)]
  BY <1>6 DEF ArcTo
<1> HIDE DEF g, n, first, F, S, Is
<1>8. DOMAIN g = 1 .. n /\ g[1] = first /\ g = [i \in 1 .. n |-> g[i]]
  BY <1>1, <1>7
<1>9. \A i \in 2 .. n : g[i] = g[i - 1] \o ArcTo(v, i)
  <2> TAKE i \in 2 .. n
  <2>1. i \in 1 .. n /\ i # 1
    BY <1>1
  <2> QED BY <1>7, <2>1
<1>10. \A i \in 1 .. n : g[i] \in S
  <2>1. g[1] \in S
    BY <1>1, <1>8
  <2>2. ASSUME NEW i \in 2 .. n, g[i - 1] \in S PROVE g[i] \in S
    BY <1>2, <1>9, <2>2, ConcatIs DEF S
  <2>3. 2 .. n = 1 + 1 .. n /\ 1 \in Nat
    OBVIOUS
  <2> QED BY <1>1, <2>1, <2>2, <2>3, RecursionStays
<1> QED BY <1>8, <1>9, <1>10 DEF g, n, S, first

\* The lengths of the legs between the vertices.
Legs(v) == [i \in 1 .. Len(v) - 1 |-> LegLength(v, i, i + 1)]

\* The legs of a polyline are one fewer than its vertices.
LEMMA LegsAre ==
    \A v : Drawn(v) /\ Len(v) > 0 => Legs(v) \in Seq(Int) /\ Len(Legs(v)) = Len(v) - 1
<1> TAKE v
<1> HAVE Drawn(v) /\ Len(v) > 0
<1>1. Len(v) \in Nat
  BY DEF Drawn
<1>2. \A i \in 1 .. Len(v) - 1 : LegLength(v, i, i + 1) \in Int
  <2> TAKE i \in 1 .. Len(v) - 1
  <2>1. i + 1 \in 2 .. Len(v) /\ (i + 1) - 1 = i
    BY <1>1
  <2>2. LegLength(v, (i + 1) - 1, i + 1) \in Int
    BY <2>1, ArcToIs
  <2> QED BY <2>1, <2>2
<1> QED BY <1>1, <1>2 DEF Legs

\* What a path is up to a vertex.
IsPath(p, v, i) ==
    /\ p \in Seq(GridPoint) /\ Len(p) >= i
    /\ p[1] = At2D(v[1])
    /\ p[Len(p)] = At2D(v[i])
    /\ SumOf(Steps(p)) = Sums(Legs(v))[i - 1]

\* The points up to a vertex begin at the first vertex, end at that one and are as long as the legs.
LEMMA PathsAre ==
    \A v : Drawn(v) /\ Len(v) > 0 => \A i \in 1 .. Len(v) : IsPath(Paths(v)[i], v, i)
<1> TAKE v
<1> HAVE Drawn(v) /\ Len(v) > 0
<1> DEFINE n == Len(v)
           A == {i \in 1 .. n : IsPath(Paths(v)[i], v, i)}
           sums == Sums(Legs(v))
<1>1. n \in Nat /\ 1 \in 1 .. n /\ \A i \in 1 .. n : At2D(v[i]) \in GridPoint
  <2>1. v \in Seq(Vertex) /\ n \in Nat
    BY DEF Drawn
  <2>2. \A i \in 1 .. n : v[i] \in Vertex
    BY <2>1
  <2> QED BY <2>1, <2>2, VertexIs
<1>2. /\ Paths(v) \in [1 .. n -> Seq(GridPoint)]
      /\ Paths(v)[1] = <<At2D(v[1])>>
      /\ \A i \in 2 .. n : Paths(v)[i] = Paths(v)[i - 1] \o ArcTo(v, i)
  BY PathsFollow
<1>3. /\ sums \in [0 .. n - 1 -> Int] /\ sums[0] = 0
      /\ \A i \in 1 .. n - 1 : sums[i] = sums[i - 1] + LegLength(v, i, i + 1)
  <2>1. Legs(v) \in Seq(Int) /\ Len(Legs(v)) = n - 1
    BY LegsAre
  <2>2. /\ sums \in [0 .. Len(Legs(v)) -> Int] /\ sums[0] = 0
        /\ \A i \in 1 .. Len(Legs(v)) : sums[i] = sums[i - 1] + Legs(v)[i]
    BY <2>1, SumsFollow
  <2>3. \A i \in 1 .. n - 1 : Legs(v)[i] = LegLength(v, i, i + 1)
    BY DEF Legs
  <2> HIDE DEF sums, n
  <2> QED BY <2>1, <2>2, <2>3
<1> HIDE DEF sums
<1>4. 1 \in A
  <2> DEFINE p == <<At2D(v[1])>>
  <2>1. p \in Seq(GridPoint) /\ Len(p) = 1 /\ p[1] = At2D(v[1])
    BY <1>1, OneElement, Zenon
  <2>2. SumOf(Steps(p)) = 0
    BY <1>1, LengthOne
  <2> HIDE DEF p
  <2>3. IsPath(p, v, 1)
    BY <1>3, <2>1, <2>2 DEF IsPath, sums
  <2> QED BY <1>1, <1>2, <2>3 DEF p
<1>5. ASSUME NEW i \in 1 + 1 .. n, i - 1 \in A PROVE i \in A
  <2>1. i \in 2 .. n /\ i \in 1 .. n /\ i - 1 \in 1 .. n /\ i - 1 \in 1 .. n - 1 /\ (i - 1) + 1 = i /\ (i - 1) - 1 = i - 2
    BY <1>1
  <2> DEFINE p == Paths(v)[i - 1]
             q == ArcTo(v, i)
             from == At2D(v[i - 1])
             h == <<from>>
             leg == LegLength(v, i - 1, i)
  <2>2. /\ p \in Seq(GridPoint) /\ Len(p) >= i - 1
        /\ p[1] = At2D(v[1]) /\ p[Len(p)] = from
        /\ SumOf(Steps(p)) = sums[i - 2]
    BY <1>5, <2>1 DEF IsPath, sums
  <2>3. q \in Seq(GridPoint) /\ Len(q) > 0 /\ q[Len(q)] = At2D(v[i]) /\ SumOf(Steps(h \o q)) = leg
    BY <2>1, ArcToIs DEF IsLeg
  <2>4. Paths(v)[i] = p \o q
    BY <1>2, <2>1
  <2> DEFINE r == p \o q
  <2>5. r \in Seq(GridPoint) /\ After(r, p, q)
    BY <2>2, <2>3, ConcatIs, Zenon
  <2>6. Len(p) > 0 /\ Len(p) \in Nat /\ Len(q) \in Nat
    BY <2>1, <2>2, <2>3
  <2>7. SumOf(Steps(r)) = SumOf(Steps(p)) + SumOf(Steps(<<p[Len(p)]>> \o q))
    BY <2>2, <2>3, <2>6, LengthConcat, Zenon
  <2>8. SumOf(Steps(r)) = sums[i - 2] + leg
    BY <2>2, <2>3, <2>7
  <2>9. sums[i - 1] = sums[i - 2] + leg
    BY <1>3, <2>1
  <2> HIDE DEF p, q, r, leg, from
  <2>10. Len(r) >= i /\ r[1] = p[1] /\ r[Len(r)] = q[Len(q)]
    <3>1. Len(r) = Len(p) + Len(q) /\ 1 \in 1 .. Len(p) /\ Len(q) \in 1 .. Len(q)
      BY <2>3, <2>5, <2>6 DEF After
    <3>2. r[1] = p[1] /\ r[Len(p) + Len(q)] = q[Len(q)]
      BY <2>5, <3>1 DEF After
    <3>3. Len(r) >= i
      BY <2>1, <2>2, <2>3, <2>6, <3>1
    <3> QED BY <3>1, <3>2, <3>3
  <2>11. IsPath(r, v, i)
    BY <2>2, <2>3, <2>5, <2>8, <2>9, <2>10 DEF IsPath, sums
  <2> QED BY <2>1, <2>4, <2>11 DEF r
<1> HIDE DEF A
<1>6. 1 .. n \subseteq A
  BY <1>1, <1>4, <1>5, IntervalInduction
<1> QED BY <1>6 DEF A

-----------------------------------------------------------------------------
(* Closing a path *)

\* A path without its last point.
Front(a) == SubSeq(a, 1, Len(a) - 1)

\* A path without its last point.
LEMMA FrontIs ==
    \A a \in Seq(GridPoint) :
        Len(a) > 1 =>
            /\ Front(a) \in Seq(GridPoint) /\ Len(Front(a)) = Len(a) - 1
            /\ \A i \in 1 .. Len(a) - 1 : Front(a)[i] = a[i]
BY DEF Front

\* A path that drops its last point and gets it back.
LEMMA FrontAndLast ==
    \A p, a \in Seq(GridPoint) : Len(a) > 1 => (p \o Front(a)) \o <<a[Len(a)]>> = p \o a
<1> TAKE p, a \in Seq(GridPoint)
<1> HAVE Len(a) > 1
<1> DEFINE n == Len(p)
           m == Len(a)
           f == Front(a)
           l == <<a[m]>>
           pf == p \o f
           pfl == pf \o l
           pa == p \o a
<1>1. n \in Nat /\ m \in Nat /\ m > 1 /\ a[m] \in GridPoint
  OBVIOUS
<1>2. f \in Seq(GridPoint) /\ Len(f) = m - 1 /\ \A i \in 1 .. m - 1 : f[i] = a[i]
  BY <1>1, FrontIs
<1>3. l \in Seq(GridPoint) /\ Len(l) = 1 /\ l[1] = a[m]
  BY <1>1, OneElement, Zenon
<1>4. pf \in Seq(GridPoint) /\ After(pf, p, f)
  BY <1>2, ConcatIs, Zenon
<1>5. pfl \in Seq(GridPoint) /\ After(pfl, pf, l)
  BY <1>3, <1>4, ConcatIs, Zenon
<1>6. pa \in Seq(GridPoint) /\ After(pa, p, a)
  BY ConcatIs, Zenon
<1> HIDE DEF n, m, f, l, pf, pfl, pa
<1>7. Len(pf) = n + (m - 1) /\ Len(pfl) = n + m /\ Len(pa) = n + m
  <2>1. Len(pf) = n + (m - 1)
    BY <1>2, <1>4 DEF After, n
  <2>2. Len(pfl) = Len(pf) + 1
    BY <1>3, <1>5 DEF After
  <2>3. Len(pa) = n + m
    BY <1>6 DEF After, n, m
  <2> QED BY <1>1, <2>1, <2>2, <2>3
<1>8. ASSUME NEW i \in 1 .. n + m PROVE pfl[i] = pa[i]
  <2>1. CASE i \in 1 .. n
    <3>1. i \in 1 .. Len(pf)
      BY <1>1, <1>7, <2>1
    <3>2. pfl[i] = pf[i]
      BY <1>5, <3>1 DEF After
    <3> QED BY <1>4, <1>6, <2>1, <3>2 DEF After, n
  <2>2. CASE i > n /\ i < n + m
    <3> DEFINE k == i - n
    <3>1. i \in 1 .. Len(pf) /\ k \in 1 .. m - 1 /\ k \in 1 .. m /\ i = n + k
      BY <1>1, <1>7, <2>2
    <3> HIDE DEF k
    <3>2. pfl[i] = pf[i]
      BY <1>5, <3>1 DEF After
    <3>3. pf[n + k] = f[k]
      BY <1>2, <1>4, <3>1 DEF After, n
    <3>4. pa[n + k] = a[k]
      BY <1>6, <3>1 DEF After, n, m
    <3> QED BY <1>2, <3>1, <3>2, <3>3, <3>4
  <2>3. CASE i = n + m
    <3>1. i = Len(pf) + 1 /\ 1 \in 1 .. Len(l) /\ m \in 1 .. m
      BY <1>1, <1>3, <1>7, <2>3
    <3>2. pfl[i] = l[1]
      BY <1>5, <3>1 DEF After
    <3>3. pa[n + m] = a[m]
      BY <1>6, <3>1 DEF After, n, m
    <3> QED BY <1>3, <2>3, <3>2, <3>3
  <2> QED BY <1>1, <2>1, <2>2, <2>3
<1>9. pfl = pa
  BY <1>5, <1>6, <1>7, <1>8, SameSequence
<1> QED BY <1>9 DEF f, l, pf, pfl, pa, m

\* What an entity was flattened to: a line that is as long as the path.
IsFlat(line, length) ==
    /\ line \in [closed : BOOLEAN, points : Seq(GridPoint)]
    /\ Len(line.points) >= 2
    /\ PolylineLength(line.points, line.closed) = length

\* What a flattened entity is, from its points.
LEMMA FlatIs ==
    \A points, length : \A closed \in BOOLEAN :
        points \in Seq(GridPoint) /\ Len(points) >= 2 /\ PolylineLength(points, closed) = length
        => IsFlat([closed |-> closed, points |-> points], length)
BY DEF IsFlat

\* A path, and back to its start along an arc.
LEMMA ClosedByArc ==
    \A p, a \in Seq(GridPoint) :
        Len(p) > 1 /\ Len(a) > 1 /\ a[Len(a)] = p[1] =>
            /\ p \o Front(a) \in Seq(GridPoint) /\ Len(p \o Front(a)) > 2
            /\ PolylineLength(p \o Front(a), TRUE)
                   = SumOf(Steps(p)) + SumOf(Steps(<<p[Len(p)]>> \o a))
<1> TAKE p, a \in Seq(GridPoint)
<1> HAVE Len(p) > 1 /\ Len(a) > 1 /\ a[Len(a)] = p[1]
<1> DEFINE f == Front(a)
           pf == p \o f
           n == Len(pf)
<1>1. Len(p) \in Nat /\ Len(a) \in Nat /\ Len(p) > 0 /\ p[1] \in GridPoint
  OBVIOUS
<1>2. f \in Seq(GridPoint) /\ Len(f) = Len(a) - 1
  BY FrontIs
<1>3. pf \in Seq(GridPoint) /\ After(pf, p, f)
  BY <1>2, ConcatIs, Zenon
<1>4. pf \o <<p[1]>> = p \o a
  <2>1. (p \o Front(a)) \o <<a[Len(a)]>> = p \o a
    BY FrontAndLast, Zenon
  <2> QED BY <2>1
<1> HIDE DEF f, pf
<1>5. n = Len(p) + (Len(a) - 1) /\ pf[1] = p[1]
  BY <1>1, <1>2, <1>3 DEF After
<1>6. n > 2 /\ n > 0
  BY <1>1, <1>5
<1>7. SumOf(Steps(pf \o <<p[1]>>)) = SumOf(Steps(pf)) + Span(pf[n], p[1])
  BY <1>1, <1>3, <1>6, LengthAppend, Zenon
<1>8. SumOf(Steps(p \o a)) = SumOf(Steps(p)) + SumOf(Steps(<<p[Len(p)]>> \o a))
  BY <1>1, LengthConcat, Zenon
<1>9. PolylineLength(pf, TRUE) = SumOf(Steps(pf)) + Span(pf[n], p[1])
  BY <1>5, <1>6 DEF PolylineLength, LengthOpen
<1> QED BY <1>3, <1>4, <1>6, <1>7, <1>8, <1>9 DEF pf, f, n

-----------------------------------------------------------------------------
(* Entities *)

\* A LINE is as long as it is drawn.
LEMMA LineIsFlat ==
    \A e : Deliverable(e) /\ e.type = "LINE" /\ Len(e.vertices) >= 2 => IsFlat(FlattenLine(e), PathLength(e))
<1> TAKE e
<1> HAVE Deliverable(e) /\ e.type = "LINE" /\ Len(e.vertices) >= 2
<1> DEFINE p == At2D(e.vertices[1])
           q == At2D(e.vertices[2])
           line == [closed |-> FALSE, points |-> <<p, q>>]
<1>1. e.vertices \in Seq(Vertex)
  BY DEF Deliverable
<1>2. e.vertices[1] \in Vertex /\ e.vertices[2] \in Vertex /\ ~(Len(e.vertices) < 2)
  BY <1>1
<1>3. p \in GridPoint /\ q \in GridPoint
  BY <1>2, VertexIs
<1>4. FlattenLine(e) = line /\ PathLength(e) = Span(p, q)
  BY <1>2 DEF FlattenLine, PathLength
<1> HIDE DEF p, q
<1>5. <<p, q>> \in Seq(GridPoint) /\ Len(<<p, q>>) = 2
  BY <1>3
<1>6. SumOf(Steps(<<p, q>>)) = Span(p, q) /\ Span(p, q) \in Int
  BY <1>3, LengthTwo, SpanIs
<1>7. PolylineLength(<<p, q>>, FALSE) = Span(p, q)
  BY <1>6 DEF PolylineLength, LengthOpen
<1>8. IsFlat([closed |-> FALSE, points |-> <<p, q>>], Span(p, q))
  <2>1. Len(<<p, q>>) >= 2
    BY <1>5
  <2>2. FALSE \in BOOLEAN
    OBVIOUS
  <2> QED BY <1>5, <1>7, <2>1, <2>2, FlatIs, Zenon
<1> QED BY <1>4, <1>8

\* A CIRCLE, which drops its last point and is closed, is as long as it is drawn.
LEMMA CircleIsFlat ==
    \A e : Deliverable(e) /\ e.type = "CIRCLE" /\ e.radius > 0 => IsFlat(FlattenCircle(e), PathLength(e))
<1> TAKE e
<1> HAVE Deliverable(e) /\ e.type = "CIRCLE" /\ e.radius > 0
<1> DEFINE half == e.radius \div 2
           a == ArcPoints(e.center, e.radius, 0, 8)
           f == Front(a)
           n == Len(f)
<1>1. e.center \in GridPoint /\ e.radius \in Int /\ e.radius % 2 = 0
  BY DEF Deliverable, HasCentre, GridPoint
<1>2. half \in Nat \ {0} /\ e.radius = 2 * half
  BY <1>1
<1> HIDE DEF half
<1>3. IsArc(a, e.center, e.radius, 0, 8)
  <2>1. 8 \in (-8 .. 8) \ {0} /\ 0 \in Int
    OBVIOUS
  <2>2. IsArc(ArcPoints(e.center, 2 * half, 0, 8), e.center, 2 * half, 0, 8)
    BY <1>1, <1>2, <2>1, ArcIs
  <2> QED BY <1>2, <2>2
<1>4. a[Len(a)] = a[1]
  <2>1. PointAt(e.center, 2 * half, 0) = PointAt(e.center, 2 * half, 8)
    <3>1. 0 \in Int /\ 8 \in Int /\ half \in Int /\ 0 % 8 = 8 % 8
      BY <1>2
    <3> QED BY <1>1, <3>1, PointOnGrid
  <2> QED BY <1>2, <1>3, <2>1 DEF IsArc
<1>5. FlattenCircle(e) = [closed |-> TRUE, points |-> f] /\ PathLength(e) = 8 * e.radius
  BY <1>1 DEF FlattenCircle, PathLength, Front
<1> HIDE DEF a
<1>6. a \in Seq(GridPoint) /\ Len(a) = 9 /\ SumOf(Steps(a)) = 8 * e.radius /\ a[1] \in GridPoint
  <2>1. Abs(8) = 8
    BY DEF Abs
  <2>2. a \in Seq(GridPoint) /\ Len(a) > 2 /\ SumOf(Steps(a)) = 8 * e.radius
    BY <1>3, <2>1 DEF IsArc
  <2>3. SegmentsForArc(e.radius, 8) = 8
    <3>1. 8 \in (-8 .. 8) \ {0} /\ e.radius \in Nat \ {0}
      BY <1>2
    <3>2. SegmentsForArc(e.radius, 8) = IF Abs(8) = 1 THEN 2 ELSE Abs(8)
      BY <3>1, SegmentsIs
    <3> QED BY <2>1, <3>2
  <2>4. a = [i \in 1 .. 8 + 1 |-> PointAt(e.center, e.radius, 0 + (8 * (i - 1)) \div 8)]
    BY <2>3 DEF a, ArcPoints
  <2>5. DOMAIN a = 1 .. 9
    BY <2>4
  <2> QED BY <2>2, <2>5
<1>7. f \in Seq(GridPoint) /\ n = Len(a) - 1 /\ \A i \in 1 .. Len(a) - 1 : f[i] = a[i]
  <2>1. Len(a) > 1
    BY <1>6
  <2> QED BY <1>6, <2>1, FrontIs, Zenon
<1>8. f \o <<a[1]>> = a
  <2> DEFINE l == <<a[1]>>
             r == f \o l
  <2>1. l \in Seq(GridPoint) /\ Len(l) = 1 /\ l[1] = a[1]
    BY <1>6, OneElement, Zenon
  <2>2. r \in Seq(GridPoint) /\ After(r, f, l)
    BY <1>7, <2>1, ConcatIs, Zenon
  <2> HIDE DEF l, r, f
  <2>3. Len(r) = Len(a)
    BY <1>6, <1>7, <2>1, <2>2 DEF After
  <2>4. ASSUME NEW i \in 1 .. Len(a) PROVE r[i] = a[i]
    <3>1. CASE i \in 1 .. Len(a) - 1
      BY <1>7, <2>2, <3>1 DEF After
    <3>2. CASE i = Len(a)
      <4>1. i = Len(f) + 1 /\ 1 \in 1 .. Len(l)
        BY <1>6, <1>7, <2>1, <3>2
      <4>2. r[i] = l[1]
        BY <2>2, <4>1 DEF After
      <4> QED BY <1>4, <2>1, <3>2, <4>2
    <3> QED BY <1>6, <3>1, <3>2
  <2>5. r = a
    BY <1>6, <2>2, <2>3, <2>4, SameSequence
  <2> QED BY <2>5 DEF r, l
<1> HIDE DEF f
<1>9. n \in Nat /\ n >= 2 /\ n > 0 /\ f[1] = a[1] /\ f[n] \in GridPoint
  <2>1. n = 8 /\ 1 \in 1 .. Len(a) - 1 /\ 8 \in 1 .. Len(a) - 1
    BY <1>6, <1>7
  <2>2. f[1] = a[1] /\ f[8] = a[8]
    BY <1>7, <2>1, Zenon
  <2>3. a[8] \in GridPoint
    <3>1. a \in Seq(GridPoint)
      BY <1>6
    <3>2. 8 \in 1 .. Len(a)
      BY <1>6
    <3> QED BY <3>1, <3>2
  <2> HIDE DEF n
  <2> QED BY <2>1, <2>2, <2>3
<1>10. SumOf(Steps(f \o <<a[1]>>)) = SumOf(Steps(f)) + Span(f[n], a[1])
  BY <1>6, <1>7, <1>9, LengthAppend, Zenon
<1>11. PolylineLength(f, TRUE) = 8 * e.radius
  <2>1. n > 2
    BY <1>6, <1>7
  <2> QED BY <1>6, <1>8, <1>9, <1>10, <2>1 DEF PolylineLength, LengthOpen
<1>12. IsFlat([closed |-> TRUE, points |-> f], 8 * e.radius)
  <2>1. TRUE \in BOOLEAN /\ Len(f) >= 2
    BY <1>9
  <2> QED BY <1>7, <1>11, <2>1, FlatIs, Zenon
<1> QED BY <1>5, <1>12

\* An ARC is as long as it is drawn, whatever way its angles wrap.
LEMMA ArcIsFlat ==
    \A e : Deliverable(e) /\ e.type = "ARC" /\ e.radius > 0 => IsFlat(FlattenArc(e), PathLength(e))
<1> TAKE e
<1> HAVE Deliverable(e) /\ e.type = "ARC" /\ e.radius > 0
<1> DEFINE half == e.radius \div 2
           sweep == Sweep(e)
           a == ArcPoints(e.center, e.radius, e.startAngle, sweep)
<1>1. /\ e.center \in GridPoint /\ e.radius \in Int /\ e.radius % 2 = 0
      /\ e.startAngle \in 0 .. 8 /\ e.endAngle \in 0 .. 8
  BY DEF Deliverable, HasCentre, GridPoint
<1>2. half \in Nat \ {0} /\ e.radius = 2 * half
  BY <1>1
<1>3. sweep \in 1 .. 8 /\ (e.startAngle + sweep - e.endAngle) % 8 = 0
  <2> DEFINE d == e.endAngle - e.startAngle
  <2>1. d \in -8 .. 8
    BY <1>1
  <2>2. sweep = IF d > 0 THEN d ELSE 8 - ((-d) % 8)
    BY DEF Sweep
  <2>3. e.startAngle + sweep - e.endAngle = sweep - d
    <3>1. sweep \in Int
      BY <2>1, <2>2
    <3> HIDE DEF sweep
    <3> QED BY <1>1, <3>1
  <2> HIDE DEF d, sweep
  <2>4. sweep \in 1 .. 8 /\ (sweep - d) % 8 = 0
    BY <2>1, <2>2
  <2> QED BY <2>3, <2>4
<1> HIDE DEF half, sweep
<1>4. PathLength(e) = e.radius * sweep
  <2>1. ASSUME NEW s \in 1 .. 8, (e.startAngle + s - e.endAngle) % 8 = 0 PROVE s = sweep
    <3> DEFINE x == e.startAngle - e.endAngle
    <3>1. x \in Int /\ (x + s) % 8 = 0 /\ (x + sweep) % 8 = 0 /\ sweep \in 1 .. 8
      <4>1. e.startAngle + s - e.endAngle = x + s /\ e.startAngle + sweep - e.endAngle = x + sweep
        BY <1>1, <1>3
      <4> QED BY <1>1, <1>3, <2>1, <4>1
    <3> HIDE DEF x
    <3> QED BY <3>1
  <2>2. (CHOOSE s \in 1 .. 8 : (e.startAngle + s - e.endAngle) % 8 = 0) = sweep
    BY <1>3, <2>1
  <2> QED BY <2>2 DEF PathLength
<1>5. IsArc(a, e.center, e.radius, e.startAngle, sweep)
  <2>0. sweep \in 1 .. 8
    BY <1>3
  <2>1. sweep \in (-8 .. 8) \ {0} /\ e.startAngle \in Int
    BY <1>1, <2>0
  <2>2. IsArc(ArcPoints(e.center, 2 * half, e.startAngle, sweep), e.center, 2 * half, e.startAngle, sweep)
    BY <1>1, <1>2, <2>1, ArcIs
  <2> QED BY <1>2, <2>2
<1>6. FlattenArc(e) = [closed |-> FALSE, points |-> a]
  BY <1>1 DEF FlattenArc, sweep
<1> HIDE DEF a
<1>7. a \in Seq(GridPoint) /\ Len(a) > 2 /\ SumOf(Steps(a)) = Abs(sweep) * e.radius
  BY <1>5 DEF IsArc
<1>8. Abs(sweep) = sweep /\ sweep * e.radius = e.radius * sweep /\ e.radius * sweep \in Int
  BY <1>1, <1>3 DEF Abs
<1>9. PolylineLength(a, FALSE) = e.radius * sweep
  BY <1>7, <1>8 DEF PolylineLength, LengthOpen
<1>10. IsFlat([closed |-> FALSE, points |-> a], e.radius * sweep)
  <2>1. FALSE \in BOOLEAN /\ Len(a) >= 2
    BY <1>7
  <2> QED BY <1>7, <1>9, <2>1, FlatIs, Zenon
<1> QED BY <1>4, <1>6, <1>10

\* A polyline is as long as its legs, closed or not, the closing arc included.
LEMMA PolylineIsFlat ==
    \A e : Deliverable(e) /\ e.type \in {"LWPOLYLINE", "POLYLINE"} /\ Len(e.vertices) >= 2
           => IsFlat(FlattenPolyline(e), PathLength(e))
<1> TAKE e
<1> HAVE Deliverable(e) /\ e.type \in {"LWPOLYLINE", "POLYLINE"} /\ Len(e.vertices) >= 2
<1> DEFINE v == e.vertices
           n == Len(v)
           first == At2D(v[1])
           last == At2D(v[n])
           bulge == v[n].bulge
           p == Paths(v)[n]
           back == BulgeArcPoints(last, first, bulge)
           leg == LegLength(v, n, 1)
           open == SumOf(Steps(p))
<1>1. v \in Seq(Vertex) /\ n \in Nat /\ n >= 2 /\ e.shape \in BOOLEAN
  BY DEF Deliverable
<1>2. v[1] \in Vertex /\ v[n] \in Vertex
  BY <1>1
<1>3. first \in GridPoint /\ last \in GridPoint /\ bulge \in Int
  BY <1>2, VertexIs
<1>4. Drawn(v) /\ Len(v) > 0
  <2>1. ASSUME NEW i \in 1 .. n - 1 PROVE OnGrid(At2D(v[i]), At2D(v[i + 1]), v[i].bulge)
    <3>1. i \in 1 .. n /\ i + 1 \in 1 .. n
      BY <1>1
    <3> QED BY <3>1 DEF Deliverable
  <2>2. n > 0
    BY <1>1
  <2> QED BY <1>1, <2>1, <2>2 DEF Drawn
<1>5. e.shape => OnGrid(last, first, bulge)
  <2>1. n \in 1 .. n /\ 1 \in 1 .. n
    BY <1>1
  <2> QED BY <2>1 DEF Deliverable
<1>6. /\ p \in Seq(GridPoint) /\ Len(p) >= n /\ Len(p) \in Nat
      /\ p[1] = first /\ p[Len(p)] = last
      /\ open = SumOf(Legs(v)) /\ open \in Int
  <2>1. n \in 1 .. n
    BY <1>1
  <2>2. IsPath(p, v, n)
    BY <1>4, <2>1, PathsAre
  <2>3. Legs(v) \in Seq(Int) /\ Len(Legs(v)) = n - 1
    BY <1>4, LegsAre
  <2>4. SumOf(Legs(v)) = Sums(Legs(v))[n - 1] /\ SumOf(Legs(v)) \in Int
    BY <2>3, SumIs DEF SumOf
  <2> HIDE DEF p, n, v
  <2> QED BY <2>2, <2>4 DEF IsPath, n
<1>7. PathLength(e) = open + (IF Returns(e) THEN leg ELSE 0)
  <2>1. PathLength(e) = SumOf(Legs(v)) + (IF Returns(e) THEN leg ELSE 0)
    BY DEF PathLength, Legs
  <2> QED BY <1>6, <2>1
<1>8. FlattenPolyline(e) = [closed |-> e.shape,
                            points |-> IF e.shape /\ bulge # 0 THEN p \o Front(back) ELSE p]
  BY <1>1 DEF FlattenPolyline, Front
<1>9. Returns(e) <=> e.shape /\ ~(n = 2 /\ v[1].bulge = 0 /\ v[2].bulge = 0)
  BY DEF Returns
<1>10. n = 2 => IF v[1].bulge = 0 \/ first = last THEN Len(p) = 2 ELSE Len(p) > 2
  <2> SUFFICES ASSUME n = 2 PROVE IF v[1].bulge = 0 \/ first = last THEN Len(p) = 2 ELSE Len(p) > 2
    OBVIOUS
  <2> DEFINE q == BulgeArcPoints(first, last, v[1].bulge)
             h == <<first>>
  <2>1. OnGrid(first, last, v[1].bulge) /\ v[1].bulge \in Int
    <3>1. 1 \in 1 .. n - 1 /\ 1 + 1 = n
      BY <1>1
    <3>2. OnGrid(At2D(v[1]), At2D(v[1 + 1]), v[1].bulge)
      BY <1>4, <3>1 DEF Drawn
    <3> QED BY <1>2, <3>1, <3>2, VertexIs
  <2>2. p = h \o q
    <3>1. Paths(v)[1] = h /\ \A i \in 2 .. n : Paths(v)[i] = Paths(v)[i - 1] \o ArcTo(v, i)
      BY <1>4, PathsFollow
    <3>2. n \in 2 .. n /\ n - 1 = 1
      BY <1>1
    <3>3. p = Paths(v)[n - 1] \o ArcTo(v, n)
      BY <3>1, <3>2
    <3>4. ArcTo(v, n) = q
      BY <3>2 DEF ArcTo
    <3> QED BY <3>1, <3>2, <3>3, <3>4
  <2>3. /\ IsLeg(q, first, last, ArcLength(first, last, v[1].bulge))
        /\ IF v[1].bulge = 0 \/ first = last THEN q = <<last>> ELSE Len(q) > 1
    BY <1>3, <2>1, BulgeIs
  <2>4. h \in Seq(GridPoint) /\ Len(h) = 1 /\ q \in Seq(GridPoint) /\ Len(q) \in Nat
    BY <1>3, <2>3, OneElement DEF IsLeg
  <2>5. Len(<<last>>) = 1
    OBVIOUS
  <2> HIDE DEF p, q, h, first, last
  <2>6. Len(p) = Len(h) + Len(q)
    <3>1. After(h \o q, h, q)
      BY <2>4, ConcatIs, Zenon
    <3> QED BY <2>2, <3>1 DEF After
  <2>7. CASE v[1].bulge = 0 \/ first = last
    <3>1. Len(q) = 1
      BY <2>3, <2>5, <2>7
    <3> QED BY <2>4, <2>6, <2>7, <3>1
  <2>8. CASE ~(v[1].bulge = 0 \/ first = last)
    <3>1. Len(q) > 1
      BY <2>3, <2>8
    <3> QED BY <2>4, <2>6, <2>8, <3>1
  <2> QED BY <2>7, <2>8
<1>11. e.shape => /\ IsLeg(back, last, first, leg)
                  /\ IF bulge = 0 \/ last = first THEN back = <<first>> /\ leg = Span(last, first) ELSE Len(back) > 1
  <2> HAVE e.shape
  <2>1. leg = ArcLength(last, first, bulge)
    BY DEF LegLength
  <2> HIDE DEF first, last, bulge, leg
  <2> QED BY <1>3, <1>5, <2>1, BulgeIs
<1>12. Span(last, first) \in Nat /\ (last = first => Span(last, first) = 0)
  BY <1>3, SpanIs
<1>13. PolylineLength(p, e.shape) = open + (IF e.shape /\ Len(p) > 2 THEN Span(last, first) ELSE 0)
  BY <1>6 DEF PolylineLength, LengthOpen
<1>14. n = 2 => v[2].bulge = bulge
  OBVIOUS
<1> HIDE DEF v, n, first, last, bulge, p, back, leg, open
<1>15. CASE ~e.shape
  <2>1. PolylineLength(p, e.shape) = PathLength(e)
    BY <1>6, <1>7, <1>9, <1>13, <1>15
  <2>2. Len(p) >= 2
    BY <1>1, <1>6
  <2>3. IsFlat([closed |-> e.shape, points |-> p], PathLength(e))
    BY <1>1, <1>6, <2>1, <2>2, FlatIs, Zenon
  <2> QED BY <1>8, <1>15, <2>3
<1>16. CASE e.shape /\ bulge = 0
  <2>1. leg = Span(last, first)
    BY <1>11, <1>16
  <2>2. PolylineLength(p, e.shape) = PathLength(e)
    <3>1. CASE n = 2
      <4>1. CASE v[1].bulge = 0
        <5>1. ~Returns(e)
          BY <1>9, <1>14, <1>16, <3>1, <4>1
        <5>2. Len(p) = 2
          BY <1>10, <3>1, <4>1
        <5>3. PolylineLength(p, e.shape) = open + 0 /\ PathLength(e) = open + 0
          BY <1>7, <1>13, <5>1, <5>2
        <5> QED BY <5>3
      <4>2. CASE v[1].bulge # 0
        <5>1. Returns(e)
          BY <1>9, <1>16, <4>2
        <5>2. last = first \/ Len(p) > 2
          BY <1>10, <3>1, <4>2
        <5> QED BY <1>6, <1>7, <1>12, <1>13, <1>16, <2>1, <5>1, <5>2
      <4> QED BY <4>1, <4>2
    <3>2. CASE n # 2
      <4>1. Len(p) > 2 /\ Returns(e)
        BY <1>1, <1>6, <1>9, <1>16, <3>2
      <4> QED BY <1>6, <1>7, <1>13, <1>16, <2>1, <4>1
    <3> QED BY <3>1, <3>2
  <2>3. Len(p) >= 2
    BY <1>1, <1>6
  <2>4. IsFlat([closed |-> e.shape, points |-> p], PathLength(e))
    BY <1>1, <1>6, <2>2, <2>3, FlatIs, Zenon
  <2> QED BY <1>8, <1>16, <2>4
<1>17. CASE e.shape /\ bulge # 0
  <2>1. Returns(e)
    BY <1>9, <1>14, <1>17
  <2>2. CASE last = first
    <3>1. back = <<first>> /\ leg = 0
      BY <1>11, <1>12, <1>17, <2>2
    <3>2. Front(back) = <<>>
      BY <1>3, <3>1 DEF Front
    <3>3. p \o Front(back) = p
      BY <1>6, <3>2
    <3>4. PolylineLength(p, e.shape) = PathLength(e)
      BY <1>6, <1>7, <1>12, <1>13, <1>17, <2>1, <2>2, <3>1
    <3>5. Len(p) >= 2
      BY <1>1, <1>6
    <3>6. IsFlat([closed |-> e.shape, points |-> p], PathLength(e))
      BY <1>1, <1>6, <3>4, <3>5, FlatIs, Zenon
    <3> QED BY <1>8, <1>17, <3>3, <3>6
  <2>3. CASE last # first
    <3>1. /\ back \in Seq(GridPoint) /\ Len(back) > 1 /\ back[Len(back)] = p[1]
          /\ SumOf(Steps(<<p[Len(p)]>> \o back)) = leg
      BY <1>6, <1>11, <1>17, <2>3 DEF IsLeg
    <3>2. Len(p) > 1
      BY <1>1, <1>6
    <3> DEFINE pf == p \o Front(back)
    <3>3. /\ pf \in Seq(GridPoint) /\ Len(pf) > 2
          /\ PolylineLength(pf, TRUE) = SumOf(Steps(p)) + SumOf(Steps(<<p[Len(p)]>> \o back))
      BY <1>6, <3>1, <3>2, ClosedByArc, Zenon
    <3>4. PolylineLength(pf, TRUE) = PathLength(e)
      BY <1>7, <2>1, <3>1, <3>3 DEF open
    <3>5. Len(pf) >= 2 /\ TRUE \in BOOLEAN
      BY <3>3
    <3> HIDE DEF pf
    <3>6. IsFlat([closed |-> TRUE, points |-> pf], PathLength(e))
      BY <3>3, <3>4, <3>5, FlatIs, Zenon
    <3> QED BY <1>1, <1>8, <1>17, <3>6 DEF pf
  <2> QED BY <2>2, <2>3
<1> QED BY <1>1, <1>15, <1>16, <1>17

\* A path is as long as a number says, and one that was flattened to less than two points has no length.
LEMMA LengthIsNumber ==
    \A p \in Seq(GridPoint) : \A closed \in BOOLEAN : Len(p) > 0 => PolylineLength(p, closed) \in Int
<1> TAKE p \in Seq(GridPoint)
<1> TAKE closed \in BOOLEAN
<1> HAVE Len(p) > 0
<1>1. SumOf(Steps(p)) \in Int
  BY StepsAre, SumIs
<1>2. Span(p[Len(p)], p[1]) \in Int
  BY SpanIs
<1> QED BY <1>1, <1>2 DEF PolylineLength, LengthOpen

\* An entity is left out or becomes a line, and its path is as long either way.
Flattened(e) ==
    \/ Len(FlattenEntity(e).points) < 2 /\ PathLength(e) = 0
    \/ IsFlat(FlattenEntity(e), PathLength(e))

\* What flattenEntity returns is as long as the entity; what it skips has no length.
LEMMA FlattenIs ==
    \A e : Deliverable(e) =>
        /\ PathLength(e) \in Int
        /\ e.type \notin Supported => PathLength(e) = 0
        /\ e.type \in Supported => Flattened(e)
<1> TAKE e
<1> HAVE Deliverable(e)
<1>1. NoLine.points = <<>> /\ Len(NoLine.points) < 2
  BY DEF NoLine
<1>2. ASSUME e.type = "LINE" PROVE Flattened(e)
  <2>1. FlattenEntity(e) = FlattenLine(e)
    BY <1>2 DEF FlattenEntity
  <2>2. CASE Len(e.vertices) >= 2
    <3>1. IsFlat(FlattenLine(e), PathLength(e))
      BY <1>2, <2>2, LineIsFlat
    <3> QED BY <2>1, <3>1 DEF Flattened
  <2>3. CASE ~(Len(e.vertices) >= 2)
    <3>1. Len(e.vertices) < 2
      BY <1>2, <2>3 DEF Deliverable
    <3>2. FlattenLine(e) = NoLine
      BY <3>1 DEF FlattenLine
    <3>3. PathLength(e) = 0
      BY <1>2, <2>3 DEF PathLength
    <3> QED BY <1>1, <2>1, <3>2, <3>3 DEF Flattened
  <2> QED BY <2>2, <2>3
<1>3. ASSUME e.type = "CIRCLE" PROVE Flattened(e)
  <2>1. FlattenEntity(e) = FlattenCircle(e)
    BY <1>3 DEF FlattenEntity
  <2>2. CASE e.radius > 0
    <3>1. IsFlat(FlattenCircle(e), PathLength(e))
      BY <1>3, <2>2, CircleIsFlat
    <3> QED BY <2>1, <3>1 DEF Flattened
  <2>3. CASE ~(e.radius > 0)
    <3>1. e.radius <= 0
      BY <1>3, <2>3 DEF Deliverable, HasCentre
    <3>2. FlattenCircle(e) = NoLine
      BY <3>1 DEF FlattenCircle
    <3>3. PathLength(e) = 0
      BY <1>3, <2>3 DEF PathLength
    <3> QED BY <1>1, <2>1, <3>2, <3>3 DEF Flattened
  <2> QED BY <2>2, <2>3
<1>4. ASSUME e.type = "ARC" PROVE Flattened(e)
  <2>1. FlattenEntity(e) = FlattenArc(e)
    BY <1>4 DEF FlattenEntity
  <2>2. CASE e.radius > 0
    <3>1. IsFlat(FlattenArc(e), PathLength(e))
      BY <1>4, <2>2, ArcIsFlat
    <3> QED BY <2>1, <3>1 DEF Flattened
  <2>3. CASE ~(e.radius > 0)
    <3>1. e.radius <= 0
      BY <1>4, <2>3 DEF Deliverable, HasCentre
    <3>2. FlattenArc(e) = NoLine
      BY <3>1 DEF FlattenArc
    <3>3. PathLength(e) = 0
      BY <1>4, <2>3 DEF PathLength
    <3> QED BY <1>1, <2>1, <3>2, <3>3 DEF Flattened
  <2> QED BY <2>2, <2>3
<1>5. ASSUME e.type \in {"LWPOLYLINE", "POLYLINE"} PROVE Flattened(e)
  <2>1. FlattenEntity(e) = FlattenPolyline(e)
    BY <1>5 DEF FlattenEntity
  <2>2. CASE Len(e.vertices) >= 2
    <3>1. IsFlat(FlattenPolyline(e), PathLength(e))
      BY <1>5, <2>2, PolylineIsFlat
    <3> QED BY <2>1, <3>1 DEF Flattened
  <2>3. CASE ~(Len(e.vertices) >= 2)
    <3>1. Len(e.vertices) < 2
      BY <1>5, <2>3 DEF Deliverable
    <3>2. FlattenPolyline(e) = NoLine
      BY <3>1 DEF FlattenPolyline
    <3>3. PathLength(e) = 0
      BY <1>5, <2>3 DEF PathLength
    <3> QED BY <1>1, <2>1, <3>2, <3>3 DEF Flattened
  <2> QED BY <2>2, <2>3
<1>6. e.type \in Supported => Flattened(e)
  BY <1>2, <1>3, <1>4, <1>5 DEF Supported
<1>7. e.type \notin Supported => PathLength(e) = 0
  BY DEF Supported, PathLength
<1>8. IsFlat(FlattenEntity(e), PathLength(e)) => PathLength(e) \in Int
  <2> DEFINE line == FlattenEntity(e)
  <2> HAVE IsFlat(line, PathLength(e))
  <2> HIDE DEF line
  <2>1. line.points \in Seq(GridPoint) /\ line.closed \in BOOLEAN /\ Len(line.points) > 0
    BY DEF IsFlat
  <2> QED BY <2>1, LengthIsNumber DEF IsFlat
<1> QED BY <1>6, <1>7, <1>8 DEF Flattened

-----------------------------------------------------------------------------
(* Scaling and moving *)

Line == [closed : BOOLEAN, points : Seq(GridPoint)]

\* A path whose spans are all multiplied is that much longer.
LEMMA LengthScale ==
    \A p, q \in Seq(GridPoint) : \A closed \in BOOLEAN : \A k \in Int :
        /\ Len(p) > 0 /\ Len(q) = Len(p)
        /\ \A i, j \in 1 .. Len(p) : Span(q[i], q[j]) = k * Span(p[i], p[j])
        => PolylineLength(q, closed) = k * PolylineLength(p, closed)
<1> TAKE p, q \in Seq(GridPoint)
<1> TAKE closed \in BOOLEAN
<1> TAKE k \in Int
<1> HAVE /\ Len(p) > 0 /\ Len(q) = Len(p)
         /\ \A i, j \in 1 .. Len(p) : Span(q[i], q[j]) = k * Span(p[i], p[j])
<1> DEFINE n == Len(p)
           sp == Steps(p)
           sq == Steps(q)
           back == Span(p[n], p[1])
           open == SumOf(sp)
<1>1. n \in Nat /\ n > 0 /\ 1 \in 1 .. n /\ n \in 1 .. n
  OBVIOUS
<1>2. sp \in Seq(Int) /\ Len(sp) = n - 1 /\ \A i \in 1 .. n - 1 : sp[i] = Span(p[i], p[i + 1])
  BY StepsAre
<1>3. sq \in Seq(Int) /\ Len(sq) = n - 1 /\ \A i \in 1 .. n - 1 : sq[i] = Span(q[i], q[i + 1])
  BY StepsAre
<1>4. \A i \in 1 .. Len(sp) : sq[i] = k * sp[i]
  <2> TAKE i \in 1 .. Len(sp)
  <2>1. i \in 1 .. n - 1 /\ i \in 1 .. n /\ i + 1 \in 1 .. n
    BY <1>1, <1>2
  <2> QED BY <1>2, <1>3, <2>1
<1>5. Span(q[n], q[1]) = k * back
  BY <1>1
<1>6. back \in Int
  BY <1>1, SpanIs
<1> HIDE DEF sp, sq, n, back
<1>7. SumOf(sq) = k * open /\ open \in Int
  BY <1>2, <1>3, <1>4, SumScale, SumIs
<1>8. PolylineLength(p, closed) = open + (IF closed /\ n > 2 THEN back ELSE 0)
  BY DEF PolylineLength, LengthOpen, sp, n, back
<1>9. PolylineLength(q, closed) = SumOf(sq) + (IF closed /\ n > 2 THEN Span(q[n], q[1]) ELSE 0)
  BY DEF PolylineLength, LengthOpen, sq, n
<1> HIDE DEF open
<1>10. CASE closed /\ n > 2
  <2>1. k * (open + back) = k * open + k * back
    BY <1>6, <1>7
  <2> QED BY <1>5, <1>7, <1>8, <1>9, <1>10, <2>1
<1>11. CASE ~(closed /\ n > 2)
  <2>1. open + 0 = open /\ k * open + 0 = k * open
    BY <1>7
  <2> QED BY <1>7, <1>8, <1>9, <1>11, <2>1
<1> QED BY <1>10, <1>11

Scales == {10, 100, 254, 3048, 10000}

\* The scales toMillimetres may apply.
LEMMA ScaleIs ==
    \A code : UnitScale(code) \in Scales
BY DEF UnitScale, Scales

\* A span grows with the scale.
LEMMA ScaleSpan ==
    \A k \in Scales : \A p, q \in GridPoint :
        Span(<<p[1] * k, p[2] * k>>, <<q[1] * k, q[2] * k>>) = k * Span(p, q)
<1> TAKE k \in Scales
<1> TAKE p, q \in GridPoint
<1>1. /\ p[1] \in Int /\ p[2] \in Int /\ q[1] \in Int /\ q[2] \in Int
      /\ k \in {10, 100, 254, 3048, 10000}
  BY DEF GridPoint, Scales
<1>2. CASE k = 10
  BY <1>1, <1>2 DEF Span, Abs
<1>3. CASE k = 100
  BY <1>1, <1>3 DEF Span, Abs
<1>4. CASE k = 254
  BY <1>1, <1>4 DEF Span, Abs
<1>5. CASE k = 3048
  BY <1>1, <1>5 DEF Span, Abs
<1>6. CASE k = 10000
  BY <1>1, <1>6 DEF Span, Abs
<1> QED BY <1>1, <1>2, <1>3, <1>4, <1>5, <1>6

\* A polyline's length grows with the scale.
LEMMA ScalePolylineIs ==
    \A line \in Line : \A k \in Scales :
        Len(line.points) >= 2 =>
            /\ ScalePolyline(line, k) \in Line
            /\ Len(ScalePolyline(line, k).points) >= 2
            /\ PolylineLength(ScalePolyline(line, k).points, ScalePolyline(line, k).closed)
                   = k * PolylineLength(line.points, line.closed)
<1> TAKE line \in Line
<1> TAKE k \in Scales
<1> HAVE Len(line.points) >= 2
<1> DEFINE p == line.points
           n == Len(p)
           q == [i \in 1 .. n |-> <<p[i][1] * k, p[i][2] * k>>]
<1>1. p \in Seq(GridPoint) /\ n \in Nat /\ DOMAIN p = 1 .. n /\ line.closed \in BOOLEAN /\ k \in Int /\ n > 0
  BY DEF Line, Scales
<1>2. \A i \in 1 .. n : p[i] \in GridPoint
  BY <1>1
<1>3. \A x \in GridPoint : <<x[1] * k, x[2] * k>> \in GridPoint
  BY <1>1 DEF GridPoint
<1>4. ScalePolyline(line, k) = [closed |-> line.closed, points |-> q]
  <2>1. ScalePolyline(line, k) = [line EXCEPT !.points = q]
    BY <1>1 DEF ScalePolyline, OnPoints
  <2> HIDE DEF q
  <2> QED BY <2>1 DEF Line
<1>5. q \in Seq(GridPoint) /\ Len(q) = n
  BY <1>1, <1>2, <1>3
<1>6. \A i, j \in 1 .. n : Span(q[i], q[j]) = k * Span(p[i], p[j])
  <2>0. \A i \in 1 .. n : q[i] = <<p[i][1] * k, p[i][2] * k>>
    OBVIOUS
  <2> HIDE DEF p, q, n
  <2> TAKE i, j \in 1 .. n
  <2>1. p[i] \in GridPoint /\ p[j] \in GridPoint
    BY <1>2
  <2>2. q[i] = <<p[i][1] * k, p[i][2] * k>> /\ q[j] = <<p[j][1] * k, p[j][2] * k>>
    BY <2>0
  <2>3. Span(<<p[i][1] * k, p[i][2] * k>>, <<p[j][1] * k, p[j][2] * k>>) = k * Span(p[i], p[j])
    BY <2>1, ScaleSpan, Zenon
  <2> QED BY <2>2, <2>3
<1> HIDE DEF p, q, n
<1>7. PolylineLength(q, line.closed) = k * PolylineLength(p, line.closed)
  <2>1. Len(p) > 0 /\ Len(q) = Len(p) /\ \A i, j \in 1 .. Len(p) : Span(q[i], q[j]) = k * Span(p[i], p[j])
    BY <1>1, <1>5, <1>6 DEF n
  <2> QED BY <1>1, <1>5, <2>1, LengthScale, Zenon
<1> QED BY <1>1, <1>4, <1>5, <1>7 DEF Line, p, n

\* A polyline that is moved keeps its length.
LEMMA MovedIs ==
    \A line \in Line : \A box :
        box.minX \in Int /\ box.minY \in Int /\ Len(line.points) >= 2 =>
            PolylineLength(MovedToOrigin(line, box).points, MovedToOrigin(line, box).closed)
                = PolylineLength(line.points, line.closed)
<1> TAKE line \in Line
<1> TAKE box
<1> HAVE box.minX \in Int /\ box.minY \in Int /\ Len(line.points) >= 2
<1> DEFINE p == line.points
           n == Len(p)
           q == [i \in 1 .. n |-> <<p[i][1] - box.minX, p[i][2] - box.minY>>]
<1>1. p \in Seq(GridPoint) /\ n \in Nat /\ DOMAIN p = 1 .. n /\ line.closed \in BOOLEAN /\ n > 0
  BY DEF Line
<1>2. \A i \in 1 .. n : p[i] \in GridPoint
  BY <1>1
<1>3. \A x \in GridPoint : <<x[1] - box.minX, x[2] - box.minY>> \in GridPoint
  BY <1>1 DEF GridPoint
<1>4. MovedToOrigin(line, box) = [closed |-> line.closed, points |-> q]
  <2>1. MovedToOrigin(line, box) = [line EXCEPT !.points = q]
    BY <1>1 DEF MovedToOrigin, OnPoints
  <2> HIDE DEF q
  <2> QED BY <2>1 DEF Line
<1>5. q \in Seq(GridPoint) /\ Len(q) = n
  BY <1>1, <1>2, <1>3
<1>6. \A x, y \in GridPoint : Span(<<x[1] - box.minX, x[2] - box.minY>>, <<y[1] - box.minX, y[2] - box.minY>>) = 1 * Span(x, y)
  BY DEF Span, Abs, GridPoint
<1>7. \A i, j \in 1 .. n : Span(q[i], q[j]) = 1 * Span(p[i], p[j])
  BY <1>2, <1>6
<1> HIDE DEF p, q, n
<1>8. PolylineLength(q, line.closed) = 1 * PolylineLength(p, line.closed)
  <2>1. Len(p) > 0 /\ Len(q) = Len(p) /\ 1 \in Int /\ \A i, j \in 1 .. Len(p) : Span(q[i], q[j]) = 1 * Span(p[i], p[j])
    BY <1>1, <1>5, <1>7 DEF n
  <2> QED BY <1>1, <1>5, <2>1, LengthScale, Zenon
<1>9. PolylineLength(p, line.closed) \in Int
  BY <1>1, LengthIsNumber DEF n
<1> QED BY <1>4, <1>8, <1>9 DEF p

-----------------------------------------------------------------------------
(* The box *)

\* Numbers that are listed have a lower bound.
LEMMA ListIsBounded ==
    \A n \in Nat : \A f \in [1 .. n -> Int] : \E m \in Int : \A i \in 1 .. n : m <= f[i]
<1> TAKE n \in Nat
<1> TAKE f \in [1 .. n -> Int]
<1> DEFINE A == {k \in 0 .. n : \E m \in Int : \A i \in 1 .. k : m <= f[i]}
<1>1. 0 \in A
  OBVIOUS
<1>2. ASSUME NEW k \in 0 + 1 .. n, k - 1 \in A PROVE k \in A
  <2>1. k \in 1 .. n /\ k \in 0 .. n /\ f[k] \in Int
    OBVIOUS
  <2>2. PICK m \in Int : \A i \in 1 .. k - 1 : m <= f[i]
    BY <1>2
  <2> DEFINE l == IF f[k] < m THEN f[k] ELSE m
  <2>3. l \in Int /\ l <= f[k] /\ l <= m
    BY <2>1
  <2> HIDE DEF l
  <2>4. ASSUME NEW i \in 1 .. k PROVE l <= f[i]
    <3>1. CASE i = k
      BY <2>3, <3>1
    <3>2. CASE i # k
      <4>1. i \in 1 .. k - 1 /\ f[i] \in Int
        BY <2>1, <3>2
      <4>2. m <= f[i]
        BY <2>2, <4>1
      <4> QED BY <2>3, <4>1, <4>2
    <3> QED BY <3>1, <3>2
  <2> QED BY <2>1, <2>3, <2>4
<1> HIDE DEF A
<1>3. 0 .. n \subseteq A
  BY <1>1, <1>2, IntervalInduction
<1>4. n \in A
  BY <1>3
<1> QED BY <1>4 DEF A

\* Whole numbers that have a lower bound have a least one.
LEMMA MinIs ==
    \A S : \A m \in Int : S \subseteq Int /\ S # {} /\ (\A x \in S : m <= x) => Min(S) \in S
<1> TAKE S
<1> TAKE m \in Int
<1> HAVE S \subseteq Int /\ S # {} /\ (\A x \in S : m <= x)
<1> DEFINE T == {n \in Nat : n + m \in S}
<1>1. T \subseteq Nat /\ T # {}
  <2>1. PICK x \in S : TRUE
    OBVIOUS
  <2>2. x - m \in Nat /\ (x - m) + m = x
    OBVIOUS
  <2>3. x - m \in T
    BY <2>2
  <2> QED BY <2>3
<1> HIDE DEF T
<1>2. PICK n \in T : \A k \in T : n <= k
  BY <1>1, LeastNumber
<1>3. n \in Nat /\ n + m \in S
  BY <1>2 DEF T
<1>4. ASSUME NEW y \in S PROVE n + m <= y
  <2>1. y \in Int /\ y - m \in Nat /\ (y - m) + m = y
    OBVIOUS
  <2>2. y - m \in T
    BY <2>1 DEF T
  <2>3. n <= y - m
    BY <1>2, <2>2
  <2> QED BY <1>3, <2>1, <2>3
<1>5. \E x \in S : \A y \in S : x <= y
  BY <1>3, <1>4
<1> QED BY <1>5 DEF Min

\* A polyline's parts.
LEMMA LineIs ==
    \A line \in Line :
        /\ line.points \in Seq(GridPoint) /\ line.closed \in BOOLEAN
        /\ Len(line.points) \in Nat /\ DOMAIN line.points = 1 .. Len(line.points)
BY DEF Line

\* Lines that the parser keeps: no line is a single point.
Kept(lines) == lines \in Seq(Line) /\ \A i \in 1 .. Len(lines) : Len(lines[i].points) >= 2

\* The points of finitely many polylines have a least coordinate.
LEMMA LinesAreBounded ==
    \A lines \in Seq(Line) : \A c \in {1, 2} :
        \E m \in Int : \A i \in 1 .. Len(lines) : \A j \in 1 .. Len(lines[i].points) : m <= lines[i].points[j][c]
<1> TAKE lines \in Seq(Line)
<1> TAKE c \in {1, 2}
<1> DEFINE Below(i, m) == \A j \in 1 .. Len(lines[i].points) : m <= lines[i].points[j][c]
           f == [i \in 1 .. Len(lines) |-> CHOOSE m \in Int : Below(i, m)]
<1>1. Len(lines) \in Nat
  OBVIOUS
<1>2. ASSUME NEW i \in 1 .. Len(lines) PROVE \E m \in Int : Below(i, m)
  <2> DEFINE p == lines[i].points
             g == [j \in 1 .. Len(p) |-> p[j][c]]
  <2>0. lines[i] \in Line
    OBVIOUS
  <2>1. p \in Seq(GridPoint) /\ Len(p) \in Nat
    BY <2>0, LineIs
  <2>2. \A j \in 1 .. Len(p) : p[j][c] \in Int
    BY <2>1 DEF GridPoint
  <2>3. g \in [1 .. Len(p) -> Int]
    BY <2>2
  <2>4. PICK m \in Int : \A j \in 1 .. Len(p) : m <= g[j]
    <3> HIDE DEF g, p
    <3> QED BY <2>1, <2>3, ListIsBounded
  <2> QED BY <2>4
<1>3. \A i \in 1 .. Len(lines) : f[i] \in Int /\ Below(i, f[i])
  BY <1>2
<1>4. f \in [1 .. Len(lines) -> Int]
  BY <1>3
<1>5. \A i \in 1 .. Len(lines) : \A j \in 1 .. Len(lines[i].points) : lines[i].points[j][c] \in Int
  <2> TAKE i \in 1 .. Len(lines)
  <2>0. lines[i] \in Line
    OBVIOUS
  <2>1. lines[i].points \in Seq(GridPoint)
    BY <2>0, LineIs
  <2> QED BY <2>1 DEF GridPoint
<1> HIDE DEF f
<1>6. PICK m \in Int : \A i \in 1 .. Len(lines) : m <= f[i]
  BY <1>1, <1>4, ListIsBounded
<1>7. ASSUME NEW i \in 1 .. Len(lines), NEW j \in 1 .. Len(lines[i].points) PROVE m <= lines[i].points[j][c]
  <2>1. m <= f[i] /\ f[i] \in Int /\ f[i] <= lines[i].points[j][c] /\ lines[i].points[j][c] \in Int
    BY <1>3, <1>5, <1>6
  <2> QED BY <2>1
<1> QED BY <1>7

\* The box of lines has a corner on the grid.
LEMMA BoxIs ==
    \A lines : Kept(lines) /\ lines # <<>> => BoxOf(lines).minX \in Int /\ BoxOf(lines).minY \in Int
<1> TAKE lines
<1> HAVE Kept(lines) /\ lines # <<>>
<1> DEFINE all == {lines[i] : i \in DOMAIN lines}
           points == UNION {{line.points[i] : i \in DOMAIN line.points} : line \in all}
           xs == {p[1] : p \in points}
           ys == {p[2] : p \in points}
<1>1. lines \in Seq(Line) /\ Len(lines) \in Nat /\ Len(lines) > 0 /\ DOMAIN lines = 1 .. Len(lines)
  BY DEF Kept
<1>2. \A i \in 1 .. Len(lines) : lines[i].points \in Seq(GridPoint) /\ Len(lines[i].points) >= 2
                                 /\ DOMAIN lines[i].points = 1 .. Len(lines[i].points)
  <2> TAKE i \in 1 .. Len(lines)
  <2>1. lines[i] \in Line
    BY <1>1
  <2> QED BY <2>1, LineIs DEF Kept
<1>3. \A p : p \in points <=> \E i \in 1 .. Len(lines) : \E j \in 1 .. Len(lines[i].points) : p = lines[i].points[j]
  <2> TAKE p
  <2>1. ASSUME p \in points
        PROVE  \E i \in 1 .. Len(lines) : \E j \in 1 .. Len(lines[i].points) : p = lines[i].points[j]
    <3>1. PICK line \in all : p \in {line.points[i] : i \in DOMAIN line.points}
      BY <2>1
    <3>2. PICK i \in 1 .. Len(lines) : line = lines[i]
      BY <1>1
    <3>3. PICK j \in DOMAIN line.points : p = line.points[j]
      BY <3>1
    <3>4. j \in 1 .. Len(lines[i].points) /\ p = lines[i].points[j]
      BY <1>2, <3>2, <3>3
    <3> QED BY <3>4
  <2>2. ASSUME NEW i \in 1 .. Len(lines), NEW j \in 1 .. Len(lines[i].points), p = lines[i].points[j]
        PROVE  p \in points
    <3>1. lines[i] \in all /\ j \in DOMAIN lines[i].points
      BY <1>1, <1>2
    <3> DEFINE its == {lines[i].points[k] : k \in DOMAIN lines[i].points}
    <3>2. its \in {{line.points[k] : k \in DOMAIN line.points} : line \in all}
      BY <3>1
    <3>3. p \in its
      BY <2>2, <3>1
    <3> HIDE DEF its, all
    <3> QED BY <3>2, <3>3
  <2> QED BY <2>1, <2>2
<1> HIDE DEF points
<1>4. points \subseteq GridPoint /\ points # {}
  <2>1. points \subseteq GridPoint
    BY <1>2, <1>3
  <2>2. 1 \in 1 .. Len(lines)
    BY <1>1
  <2>3. 1 \in 1 .. Len(lines[1].points)
    BY <1>2, <2>2
  <2>4. lines[1].points[1] \in points
    BY <1>3, <2>2, <2>3
  <2> QED BY <2>1, <2>4
<1>5. xs \subseteq Int /\ xs # {} /\ ys \subseteq Int /\ ys # {}
  BY <1>4 DEF GridPoint
<1>6. Min(xs) \in xs
  <2>1. PICK m \in Int : \A i \in 1 .. Len(lines) : \A j \in 1 .. Len(lines[i].points) : m <= lines[i].points[j][1]
    BY <1>1, LinesAreBounded
  <2>2. \A x \in xs : m <= x
    BY <1>3, <2>1
  <2> HIDE DEF xs
  <2> QED BY <1>5, <2>2, MinIs, Zenon
<1>7. Min(ys) \in ys
  <2>1. PICK m \in Int : \A i \in 1 .. Len(lines) : \A j \in 1 .. Len(lines[i].points) : m <= lines[i].points[j][2]
    BY <1>1, LinesAreBounded
  <2>2. \A y \in ys : m <= y
    BY <1>3, <2>1
  <2> HIDE DEF ys
  <2> QED BY <1>5, <2>2, MinIs, Zenon
<1>8. BoxOf(lines).minX = Min(xs) /\ BoxOf(lines).minY = Min(ys)
  BY DEF BoxOf, BoundingBox, points
<1> QED BY <1>5, <1>6, <1>7, <1>8

-----------------------------------------------------------------------------
(* The drawing *)

\* The lengths of lines, and of the paths of entities.
LineLengths(lines) == [i \in DOMAIN lines |-> PolylineLength(lines[i].points, lines[i].closed)]
PathLengths(entities) == [i \in DOMAIN entities |-> PathLength(entities[i])]

\* The lengths of the polylines that are kept.
LEMMA LineLengthsAre ==
    \A lines : Kept(lines) => LineLengths(lines) \in Seq(Int) /\ Len(LineLengths(lines)) = Len(lines)
<1> TAKE lines
<1> HAVE Kept(lines)
<1>1. lines \in Seq(Line) /\ DOMAIN lines = 1 .. Len(lines) /\ Len(lines) \in Nat
  BY DEF Kept
<1>2. \A i \in 1 .. Len(lines) : PolylineLength(lines[i].points, lines[i].closed) \in Int
  <2> TAKE i \in 1 .. Len(lines)
  <2>0. lines[i] \in Line
    BY <1>1
  <2>1. lines[i].points \in Seq(GridPoint) /\ lines[i].closed \in BOOLEAN
    BY <2>0, LineIs
  <2>2. Len(lines[i].points) > 0
    BY <2>1 DEF Kept
  <2> QED BY <2>1, <2>2, LengthIsNumber
<1> QED BY <1>1, <1>2 DEF LineLengths

\* The lengths of the entities read.
LEMMA PathLengthsAre ==
    \A entities \in Seq(Entities) :
        PathLengths(entities) \in Seq(Int) /\ Len(PathLengths(entities)) = Len(entities)
<1> TAKE entities \in Seq(Entities)
<1>1. DOMAIN entities = 1 .. Len(entities) /\ Len(entities) \in Nat
  OBVIOUS
<1>2. \A i \in 1 .. Len(entities) : PathLength(entities[i]) \in Int
  BY DxfEntities, FlattenIs
<1> QED BY <1>1, <1>2 DEF PathLengths

\* Moving lines leaves their lengths as they are.
LEMMA MovedCut ==
    \A lines : Kept(lines) /\ lines # <<>> =>
        Measured(lines, BoxOf(lines)).cut = CutLength(lines)
<1> TAKE lines
<1> HAVE Kept(lines) /\ lines # <<>>
<1> DEFINE box == BoxOf(lines)
           normalized == [i \in DOMAIN lines |-> MovedToOrigin(lines[i], box)]
<1>1. box.minX \in Int /\ box.minY \in Int
  BY BoxIs
<1> HIDE DEF box
<1>2. ASSUME NEW i \in DOMAIN lines
      PROVE  PolylineLength(normalized[i].points, normalized[i].closed) = PolylineLength(lines[i].points, lines[i].closed)
  <2>1. lines[i] \in Line /\ Len(lines[i].points) >= 2
    BY DEF Kept
  <2>2. normalized[i] = MovedToOrigin(lines[i], box)
    OBVIOUS
  <2> HIDE DEF normalized
  <2>3. PolylineLength(MovedToOrigin(lines[i], box).points, MovedToOrigin(lines[i], box).closed) = PolylineLength(lines[i].points, lines[i].closed)
    BY <1>1, <2>1, MovedIs, Zenon
  <2> QED BY <2>2, <2>3
<1>3. DOMAIN normalized = DOMAIN lines
  OBVIOUS
<1>4. Measured(lines, box).cut = CutLength(normalized)
  BY DEF Measured
<1> HIDE DEF normalized
<1>5. [i \in DOMAIN normalized |-> PolylineLength(normalized[i].points, normalized[i].closed)]
          = [i \in DOMAIN lines |-> PolylineLength(lines[i].points, lines[i].closed)]
  BY <1>2, <1>3
<1> QED BY <1>4, <1>5 DEF CutLength, box

\* One line more.
LEMMA CutAppend ==
    \A lines : \A line \in Line : Kept(lines) /\ Len(line.points) >= 2 =>
        /\ Kept(Append(lines, line))
        /\ CutLength(Append(lines, line)) = CutLength(lines) + PolylineLength(line.points, line.closed)
<1> TAKE lines
<1> TAKE line \in Line
<1> HAVE Kept(lines) /\ Len(line.points) >= 2
<1> DEFINE more == Append(lines, line)
           n == Len(lines)
           x == PolylineLength(line.points, line.closed)
           s == LineLengths(lines)
<1>1. lines \in Seq(Line) /\ n \in Nat
  BY DEF Kept
<1>2. /\ more \in Seq(Line) /\ Len(more) = n + 1 /\ more[n + 1] = line
      /\ \A i \in 1 .. n : more[i] = lines[i]
  BY <1>1
<1> HIDE DEF more
<1>3. Kept(more)
  BY <1>1, <1>2 DEF Kept
<1>4. s \in Seq(Int) /\ Len(s) = n /\ LineLengths(more) \in Seq(Int) /\ Len(LineLengths(more)) = n + 1
  BY <1>2, <1>3, LineLengthsAre
<1>5. x \in Int
  <2>1. line.points \in Seq(GridPoint) /\ line.closed \in BOOLEAN
    BY DEF Line
  <2>2. Len(line.points) > 0
    BY <2>1
  <2> QED BY <2>1, <2>2, LengthIsNumber
<1>6. LineLengths(more) = Append(s, x)
  <2> DEFINE t == LineLengths(more)
             u == Append(s, x)
  <2>1. u \in Seq(Int) /\ Len(u) = n + 1 /\ u[n + 1] = x /\ \A i \in 1 .. n : u[i] = s[i]
    <3> HIDE DEF s, n, x
    <3> QED BY <1>1, <1>4, <1>5
  <2>2. \A i \in 1 .. n : s[i] = PolylineLength(lines[i].points, lines[i].closed)
    BY <1>1 DEF LineLengths
  <2>3. \A i \in 1 .. n + 1 : t[i] = PolylineLength(more[i].points, more[i].closed)
    BY <1>2 DEF LineLengths
  <2> HIDE DEF u, t, s, n, x
  <2>4. ASSUME NEW i \in 1 .. n + 1 PROVE t[i] = u[i]
    <3>1. CASE i = n + 1
      BY <1>1, <1>2, <2>1, <2>3, <3>1 DEF x
    <3>2. CASE i # n + 1
      <4>1. i \in 1 .. n
        BY <1>1, <3>2
      <4> QED BY <1>2, <2>1, <2>2, <2>3, <4>1
    <3> QED BY <3>1, <3>2
  <2>5. t = u
    BY <1>4, <2>1, <2>4, SameSequence DEF t
  <2> QED BY <2>5 DEF t, u
<1>7. SumOf(LineLengths(more)) = SumOf(s) + x
  BY <1>4, <1>5, <1>6, SumAppend
<1> QED BY <1>3, <1>7 DEF CutLength, LineLengths, more

\* One more entity adds its length.
LEMMA PathAppend ==
    \A entities \in Seq(Entities) : \A e \in Entities :
        SumOf(PathLengths(Append(entities, e))) = SumOf(PathLengths(entities)) + PathLength(e)
<1> TAKE entities \in Seq(Entities)
<1> TAKE e \in Entities
<1> DEFINE more == Append(entities, e)
           n == Len(entities)
           x == PathLength(e)
           s == PathLengths(entities)
           t == PathLengths(more)
           u == Append(s, x)
<1>1. /\ n \in Nat /\ more \in Seq(Entities) /\ Len(more) = n + 1 /\ more[n + 1] = e
      /\ \A i \in 1 .. n : more[i] = entities[i]
  OBVIOUS
<1> HIDE DEF more
<1>2. s \in Seq(Int) /\ Len(s) = n /\ t \in Seq(Int) /\ Len(t) = n + 1
  BY <1>1, PathLengthsAre
<1>3. x \in Int
  BY DxfEntities, FlattenIs
<1>4. \A i \in 1 .. n : s[i] = PathLength(entities[i])
  BY <1>1 DEF PathLengths
<1>5. \A i \in 1 .. n + 1 : t[i] = PathLength(more[i])
  BY <1>1 DEF PathLengths
<1> HIDE DEF s, t, x, n
<1>6. u \in Seq(Int) /\ Len(u) = n + 1 /\ u[n + 1] = x /\ \A i \in 1 .. n : u[i] = s[i]
  BY <1>1, <1>2, <1>3
<1> HIDE DEF u
<1>7. ASSUME NEW i \in 1 .. n + 1 PROVE t[i] = u[i]
  <2>1. CASE i = n + 1
    BY <1>1, <1>5, <1>6, <2>1 DEF x
  <2>2. CASE i # n + 1
    <3>1. i \in 1 .. n
      BY <1>1, <2>2
    <3> QED BY <1>1, <1>4, <1>5, <1>6, <3>1
  <2> QED BY <2>1, <2>2
<1>8. t = u
  BY <1>2, <1>6, <1>7, SameSequence
<1>9. SumOf(t) = SumOf(s) + x
  BY <1>2, <1>3, <1>8, SumAppend DEF u
<1> QED BY <1>9 DEF s, t, x, more

-----------------------------------------------------------------------------
(* The invariant *)

\* While entities are read, the lines that were kept are together as long as the paths of all
\* entities that were read, in tenths of a millimetre; so is what was measured.
DxfInv ==
    /\ stage \in {"reading", "rejected", "parsed"}
    /\ read \in Seq(Entities)
    /\ Kept(polylines)
    /\ CutLength(polylines) = UnitScale(units) * SumOf(PathLengths(read))
    /\ stage = "parsed" => geometry.cut = CutLength(polylines)

\* Before the first entity the account is empty.
LEMMA DxfInitInv == DxfInit => DxfInv
<1> SUFFICES ASSUME DxfInit PROVE DxfInv
  OBVIOUS
<1>1. stage = "reading" /\ read = <<>> /\ polylines = <<>>
  BY DEF DxfInit
<1>2. Kept(<<>>)
  BY DEF Kept
<1>3. CutLength(<<>>) = 0
  <2>1. LineLengths(<<>>) \in Seq(Int) /\ Len(LineLengths(<<>>)) = 0
    BY <1>2, LineLengthsAre
  <2>2. LineLengths(<<>>) = <<>>
    BY <2>1
  <2>3. SumOf(LineLengths(<<>>)) = 0
    BY <2>1, <2>2, SumIs
  <2> QED BY <2>3 DEF CutLength, LineLengths
<1>4. SumOf(PathLengths(<<>>)) = 0
  <2>1. <<>> \in Seq(Entities) /\ Len(<<>>) = 0
    OBVIOUS
  <2>2. PathLengths(<<>>) \in Seq(Int) /\ Len(PathLengths(<<>>)) = 0
    BY <2>1, PathLengthsAre
  <2>3. PathLengths(<<>>) = <<>>
    BY <2>2
  <2> QED BY <2>2, <2>3, SumIs
<1>5. UnitScale(units) * 0 = 0
  BY ScaleIs DEF Scales
<1> QED BY <1>1, <1>2, <1>3, <1>4, <1>5 DEF DxfInv

\* Each entity adds the same length to both sides of the account, or none.
LEMMA ReadEntityInv == DxfInv /\ (\E e \in Entities : ReadEntity(e)) => DxfInv'
<1> SUFFICES ASSUME DxfInv, NEW e \in Entities, ReadEntity(e) PROVE DxfInv'
  OBVIOUS
<1> DEFINE k == UnitScale(units)
           x == PathLength(e)
           total == SumOf(PathLengths(read))
           flattened == FlattenEntity(e)
           line == ScalePolyline(flattened, k)
<1>1. /\ read \in Seq(Entities) /\ Kept(polylines) /\ CutLength(polylines) = k * total
      /\ stage = "reading" /\ stage' = stage /\ units' = units
      /\ read' = Append(read, e)
  BY DEF DxfInv, ReadEntity
<1>2. read' \in Seq(Entities)
  BY <1>1
<1>3. SumOf(PathLengths(read')) = total + x
  BY <1>1, PathAppend
<1>4. k \in Scales /\ k \in Int /\ x \in Int /\ total \in Int
  <2>1. k \in Scales
    BY ScaleIs
  <2>2. x \in Int
    BY DxfEntities, FlattenIs
  <2>3. total \in Int
    BY <1>1, PathLengthsAre, SumIs
  <2> QED BY <2>1, <2>2, <2>3 DEF Scales
<1>5. k * (total + x) = k * total + k * x
  <2> HIDE DEF k, total, x
  <2> QED BY <1>4
<1>6. ASSUME UNCHANGED polylines, x = 0 PROVE DxfInv'
  <2>1. CutLength(polylines') = k * (total + x)
    <3> HIDE DEF k, total, x
    <3>1. total + x = total
      BY <1>4, <1>6
    <3> QED BY <1>1, <1>6, <3>1
  <2>2. UnitScale(units)' = k
    BY <1>1
  <2>3. SumOf(PathLengths(read))' = total + x
    BY <1>3
  <2>4. Kept(polylines)' /\ CutLength(polylines)' = CutLength(polylines')
    BY <1>1, <1>6
  <2> HIDE DEF k, total, x
  <2> QED BY <1>1, <1>2, <2>1, <2>2, <2>3, <2>4 DEF DxfInv
<1>7. CASE e.type \notin Supported
  <2>1. UNCHANGED polylines
    BY <1>7 DEF ReadEntity
  <2>2. x = 0
    BY <1>7, DxfEntities, FlattenIs
  <2> QED BY <1>6, <2>1, <2>2
<1>8. CASE e.type \in Supported
  <2>1. polylines' = IF Len(flattened.points) < 2 THEN polylines ELSE Append(polylines, line)
    BY <1>8 DEF ReadEntity
  <2>2. Flattened(e)
    BY <1>8, DxfEntities, FlattenIs
  <2>3. CASE Len(flattened.points) < 2
    <3>1. x = 0
      <4> HIDE DEF flattened
      <4>1. IsFlat(flattened, x) => flattened.points \in Seq(GridPoint) /\ Len(flattened.points) >= 2
        BY DEF IsFlat
      <4>2. flattened.points \in Seq(GridPoint) => Len(flattened.points) \in Nat
        OBVIOUS
      <4> QED BY <2>2, <2>3, <4>1, <4>2 DEF Flattened, flattened
    <3> QED BY <1>6, <2>1, <2>3, <3>1
  <2>4. CASE ~(Len(flattened.points) < 2)
    <3>1. IsFlat(flattened, x)
      BY <2>2, <2>4 DEF Flattened
    <3>2. flattened \in Line /\ Len(flattened.points) >= 2 /\ PolylineLength(flattened.points, flattened.closed) = x
      <4> HIDE DEF flattened, x
      <4> QED BY <3>1 DEF IsFlat, Line
    <3>3. line \in Line /\ Len(line.points) >= 2 /\ PolylineLength(line.points, line.closed) = k * x
      <4> HIDE DEF flattened, k
      <4>1. /\ line \in Line /\ Len(line.points) >= 2
            /\ PolylineLength(line.points, line.closed) = k * PolylineLength(flattened.points, flattened.closed)
        BY <1>4, <3>2, ScalePolylineIs, Zenon
      <4> HIDE DEF x, line
      <4> QED BY <3>2, <4>1
    <3>4. polylines' = Append(polylines, line)
      BY <2>1, <2>4
    <3>5. Kept(polylines') /\ CutLength(polylines') = CutLength(polylines) + k * x
      <4> HIDE DEF line, k, x
      <4>1. Kept(Append(polylines, line)) /\ CutLength(Append(polylines, line)) = CutLength(polylines) + PolylineLength(line.points, line.closed)
        BY <1>1, <3>3, CutAppend, Zenon
      <4> QED BY <3>3, <3>4, <4>1
    <3>6. CutLength(polylines') = k * (total + x)
      BY <1>1, <1>5, <3>5
    <3>7. UnitScale(units)' = k
      BY <1>1
    <3>8. SumOf(PathLengths(read))' = total + x
      BY <1>3
    <3>9. Kept(polylines)' /\ CutLength(polylines)' = CutLength(polylines')
      BY <3>5
    <3> HIDE DEF k, total, x
    <3> QED BY <1>1, <1>2, <3>6, <3>7, <3>8, <3>9 DEF DxfInv
  <2> QED BY <2>3, <2>4
<1> QED BY <1>7, <1>8

\* Scaling and moving every polyline scales the account.
LEMMA FinishParseInv == DxfInv /\ FinishParse => DxfInv'
<1> SUFFICES ASSUME DxfInv, FinishParse PROVE DxfInv'
  OBVIOUS
<1>1. /\ polylines # <<>> /\ stage' = "parsed" /\ geometry' = Measured(polylines, BoxOf(polylines))
      /\ UNCHANGED <<units, read, polylines, skipped>>
  BY DEF FinishParse, Cuttable
<1>2. Measured(polylines, BoxOf(polylines)).cut = CutLength(polylines)
  BY <1>1, MovedCut DEF DxfInv
<1>3. geometry'.cut = CutLength(polylines')
  BY <1>1, <1>2
<1> QED BY <1>1, <1>3 DEF DxfInv

\* Nothing else touches what was read.
LEMMA OtherDxfInv == DxfInv /\ (RejectDrawing \/ UNCHANGED dxfVars) => DxfInv'
<1> SUFFICES ASSUME DxfInv, RejectDrawing \/ UNCHANGED dxfVars PROVE DxfInv'
  OBVIOUS
<1>1. CASE RejectDrawing
  BY <1>1 DEF RejectDrawing, DxfInv
<1>2. CASE UNCHANGED dxfVars
  BY <1>2 DEF dxfVars, DxfInv
<1> QED BY <1>1, <1>2

\* parseDxf keeps the account of lengths while it reads, and when it is done.
THEOREM DxfInvariant == DxfSpec => []DxfInv
<1>1. DxfInv /\ [DxfNext]_dxfVars => DxfInv'
  BY ReadEntityInv, FinishParseInv, OtherDxfInv DEF DxfNext
<1> QED BY <1>1, DxfInitInv, PTL DEF DxfSpec

\* The cut length a quote is priced from is the length of the paths of the entities that can be cut,
\* in the drawing's unit: for every drawing, in any order and place.
THEOREM CutLengthIsPriced == DxfSpec => []CutLengthIsThePath
<1>1. DxfInv => CutLengthIsThePath
  BY DEF DxfInv, CutLengthIsThePath, PathLengths
<1> QED BY <1>1, DxfInvariant, PTL
-----------------------------------------------------------------------------
(***************************************************************************)
(* What the part costs: the grid and the price                             *)
(***************************************************************************)


-----------------------------------------------------------------------------
(* Division *)

LEMMA DivisionLemma ==
    ASSUME NEW a \in Nat, NEW d \in Nat \ {0}
    PROVE  /\ a \div d \in Nat
           /\ a % d \in 0..(d - 1)
           /\ a = d * (a \div d) + (a % d)
OBVIOUS

LEMMA DivisionMonotone ==
    ASSUME NEW a \in Nat, NEW b \in Nat, a <= b, NEW d \in Nat \ {0}
    PROVE  a \div d <= b \div d
OBVIOUS

LEMMA ProductMonotone ==
    ASSUME NEW a \in Nat, NEW b \in Nat, a <= b, NEW c \in Nat
    PROVE  a * c <= b * c
OBVIOUS

LEMMA ProductType == ASSUME NEW a \in Nat, NEW b \in Nat PROVE a * b \in Nat
OBVIOUS

LEMMA OneLess ==
    ASSUME NEW a \in Int, NEW b \in Int
    PROVE  a * b = b * a /\ (a - 1) * b = b * a - b
OBVIOUS

\* The least number of full sheets that hold n parts.
LEMMA CeilingLemma ==
    ASSUME NEW n \in Nat \ {0}, NEW d \in Nat \ {0}
    PROVE  /\ Ceiling(n, d) \in Nat \ {0}
           /\ Ceiling(n, d) * d >= n
           /\ (Ceiling(n, d) - 1) * d < n
<1> DEFINE a == n + d - 1
           c == a \div d
<1>1. a \in Nat
  OBVIOUS
<1>2. c \in Nat /\ a % d \in 0..(d - 1) /\ a = d * c + (a % d)
  BY <1>1, DivisionLemma
<1>3. Ceiling(n, d) = c
  BY DEF Ceiling
<1> HIDE DEF c
<1>4. c # 0
  BY <1>2
<1>5. c * d = d * c /\ (c - 1) * d = d * c - d
  BY <1>2, OneLess
<1> QED
  BY <1>2, <1>3, <1>4, <1>5

LEMMA CeilingMonotone ==
    ASSUME NEW m \in Nat \ {0}, NEW n \in Nat \ {0}, m <= n, NEW d \in Nat \ {0}
    PROVE  Ceiling(m, d) <= Ceiling(n, d)
BY DivisionMonotone DEF Ceiling

LEMMA RoundMonotone ==
    ASSUME NEW m \in Nat, NEW n \in Nat, m <= n, NEW d \in Nat \ {0}
    PROVE  /\ Round(m, d) \in Nat /\ Round(n, d) \in Nat
           /\ Round(m, d) <= Round(n, d)
BY DivisionMonotone, DivisionLemma DEF Round

-----------------------------------------------------------------------------
(* The grid *)

\* The parts counted fit the stretch, and none fits only if one part is too long, or rounding ate the
\* only one.
LEMMA AcrossLemma ==
    ASSUME NEW u \in Nat \ {0}, NEW p \in Nat \ {0}, NEW s \in Nat, NEW slip \in BOOLEAN
    PROVE  /\ Across(u, p, s, slip) \in Nat
           /\ Across(u, p, s, slip) * (p + s) <= u + s
           /\ Across(u, p, s, slip) = 0 => p > u \/ (slip /\ p = u)
<1> DEFINE d == p + s
           q == (u + s) \div d
           r == (u + s) % d
<1>1. d \in Nat \ {0} /\ u + s \in Nat \ {0} /\ d = p + s
  OBVIOUS
<1>2. q \in Nat /\ r \in 0..(d - 1) /\ u + s = d * q + r
  BY <1>1, DivisionLemma
<1>3. Across(u, p, s, slip) = IF slip /\ r = 0 THEN q - 1 ELSE q
  BY DEF Across
<1> HIDE DEF q, r, d
<1>4. q * d = d * q /\ (q - 1) * d = d * q - d
  BY <1>1, <1>2, OneLess
<1>5. CASE slip /\ r = 0
  <2>1. q # 0
    BY <1>1, <1>2, <1>5
  <2>2. q = 1 => p = u
    BY <1>1, <1>2, <1>5
  <2> QED
    BY <1>1, <1>2, <1>3, <1>4, <1>5, <2>1, <2>2
<1>6. CASE ~ (slip /\ r = 0)
  <2>1. q = 0 => p > u
    BY <1>1, <1>2
  <2> QED
    BY <1>1, <1>2, <1>3, <1>4, <1>6, <2>1
<1> QED
  BY <1>5, <1>6

\* The i-th of cols * rows places is in one of the columns and in one of the rows, and two places differ in
\* the column or in the row.
LEMMA PlaceLemma ==
    ASSUME NEW cols \in Nat \ {0}, NEW high \in Nat, NEW i \in 0..(cols * high - 1)
    PROVE  /\ i % cols \in 0..(cols - 1)
           /\ i \div cols \in 0..(high - 1)
<1>0. i \in Nat /\ cols * high \in Nat
  BY ProductType
<1> DEFINE q == i \div cols
<1>1. q \in Nat /\ i % cols \in 0..(cols - 1) /\ i = cols * q + (i % cols)
  BY <1>0, DivisionLemma
<1>2. q < high
  <2> SUFFICES ASSUME high <= q PROVE FALSE
    BY <1>1
  <2>1. high * cols <= q * cols
    BY <1>1, ProductMonotone
  <2> QED
    BY <1>0, <1>1, <2>1
<1> QED
  BY <1>1, <1>2

LEMMA PlacesDiffer ==
    ASSUME NEW cols \in Nat \ {0}, NEW i \in Nat, NEW k \in Nat, i # k
    PROVE  i % cols # k % cols \/ i \div cols # k \div cols
BY DivisionLemma

\* One axis: the k-th of n parts ends before the margin, and a later one starts after it and the gap.
LEMMA AxisFits ==
    ASSUME NEW n \in Nat \ {0}, NEW k \in 0..(n - 1), NEW p \in Nat, NEW s \in Nat, NEW u \in Nat,
           n * (p + s) <= u + s
    PROVE  k * (p + s) + p <= u
<1>1. k * (p + s) <= (n - 1) * (p + s)
  BY ProductMonotone
<1>2. (n - 1) * (p + s) = n * (p + s) - (p + s)
  OBVIOUS
<1> QED
  BY <1>1, <1>2

LEMMA AxisApart ==
    ASSUME NEW k \in Nat, NEW l \in Nat, k < l, NEW d \in Nat
    PROVE  k * d + d <= l * d
<1>1. (k + 1) * d <= l * d
  BY ProductMonotone
<1> QED
  BY <1>1

-----------------------------------------------------------------------------
(* What is stored and shown *)

\* The figures are those of the job.
EstInv ==
    \/ job = NoJob
    \/ /\ \E part \in Parts : job \in Jobs(part)
       /\ saved = SavedFigures(job)
       /\ shown = ShownFigures(job)

LEMMA EstInvariant == EstSpec => []EstInv
<1>1. EstInit => EstInv
  BY DEF EstInit, EstInv
<1>2. EstInv /\ [EstNext]_estVars => EstInv'
  <2> SUFFICES ASSUME EstInv, [EstNext]_estVars PROVE EstInv'
    OBVIOUS
  <2>1. CASE EstNext
    BY <2>1 DEF EstNext, QuotePart, EstInv
  <2>2. CASE UNCHANGED estVars
    BY <2>2 DEF EstInv, estVars
  <2> QED
    BY <2>1, <2>2
<1> QED
  BY <1>1, <1>2, PTL DEF EstSpec

\* A job is made of numbers in range.
Job == [part : [w : Nat \ {0}, h : Nat \ {0}, cut : Nat],
        material : [sheetW : Nat, sheetH : Nat, multiplier : Nat],
        machine : [spacing : Nat, margin : Nat],
        rates : Rate, quantity : Nat \ {0}, bends : Nat,
        slip : [w : BOOLEAN, h : BOOLEAN]]

LEMMA JobType == ASSUME EstInv, job # NoJob PROVE job \in Job
<1> PICK part \in Parts : job \in Jobs(part)
  BY DEF EstInv
<1> QED
  BY EstimateConstants DEF Jobs, Job

\* The grid of a job that is not refused.
Cols(j) == Across(Usable(j.material.sheetW, j.machine), j.part.w, j.machine.spacing, j.slip.w)
Rows(j) == Across(Usable(j.material.sheetH, j.machine), j.part.h, j.machine.spacing, j.slip.h)

HasRoom(j) == Usable(j.material.sheetW, j.machine) > 0 /\ Usable(j.material.sheetH, j.machine) > 0

LEMMA GridLemma ==
    ASSUME NEW j \in Job, HasRoom(j)
    PROVE  /\ Cols(j) \in Nat /\ Rows(j) \in Nat
           /\ Cols(j) * (j.part.w + j.machine.spacing)
                <= Usable(j.material.sheetW, j.machine) + j.machine.spacing
           /\ Rows(j) * (j.part.h + j.machine.spacing)
                <= Usable(j.material.sheetH, j.machine) + j.machine.spacing
           /\ Cols(j) = 0 \/ Rows(j) = 0 => TooLarge(j) \/ ExactFit(j)
<1>1. /\ j.part.w \in Nat \ {0} /\ j.part.h \in Nat \ {0}
      /\ j.machine.spacing \in Nat /\ j.slip.w \in BOOLEAN /\ j.slip.h \in BOOLEAN
      /\ Usable(j.material.sheetW, j.machine) \in Nat \ {0}
      /\ Usable(j.material.sheetH, j.machine) \in Nat \ {0}
  BY DEF Job, HasRoom, Usable
<1>2. /\ Cols(j) \in Nat
      /\ Cols(j) * (j.part.w + j.machine.spacing)
           <= Usable(j.material.sheetW, j.machine) + j.machine.spacing
      /\ Cols(j) = 0 => \/ j.part.w > Usable(j.material.sheetW, j.machine)
                        \/ j.slip.w /\ j.part.w = Usable(j.material.sheetW, j.machine)
  BY <1>1, AcrossLemma DEF Cols
<1>3. /\ Rows(j) \in Nat
      /\ Rows(j) * (j.part.h + j.machine.spacing)
           <= Usable(j.material.sheetH, j.machine) + j.machine.spacing
      /\ Rows(j) = 0 => \/ j.part.h > Usable(j.material.sheetH, j.machine)
                        \/ j.slip.h /\ j.part.h = Usable(j.material.sheetH, j.machine)
  BY <1>1, AcrossLemma DEF Rows
<1> QED
  BY <1>2, <1>3 DEF TooLarge, ExactFit

Fits(j) == HasRoom(j) /\ Cols(j) > 0 /\ Rows(j) > 0

LEMMA NestLemma ==
    ASSUME NEW j \in Job
    PROVE  /\ ~ Fits(j) => Nest(j) = Refused /\ PreviewNest(j) = Refused
           /\ Fits(j) =>
                /\ Nest(j) # Refused /\ PreviewNest(j) # Refused
                /\ \A nest \in {Nest(j), PreviewNest(j)} :
                     /\ nest.cols = Cols(j) /\ nest.rows = Rows(j)
                     /\ nest.perSheet = Cols(j) * Rows(j)
                     /\ nest.sheetCount = Ceiling(j.quantity, Cols(j) * Rows(j))
                /\ Nest(j).placed = Least(Least(j.quantity, Cols(j) * Rows(j)), MaxPlacements)
                /\ PreviewNest(j).placed = Least(j.quantity, Cols(j) * Rows(j))
<1> DEFINE usableW == Usable(j.material.sheetW, j.machine)
           usableH == Usable(j.material.sheetH, j.machine)
<1>1. /\ j.quantity \in Nat \ {0} /\ j.part.w \in Nat \ {0} /\ j.part.h \in Nat \ {0}
      /\ usableW \in Int /\ usableH \in Int
  BY DEF Job, Usable
<1>2. CASE ~ HasRoom(j)
  BY <1>1, <1>2 DEF HasRoom, Fits, Nest, PreviewNest
<1>3. CASE HasRoom(j)
  <2> DEFINE n == Cols(j) * Rows(j)
  <2>1. Cols(j) \in Nat /\ Rows(j) \in Nat
    BY <1>3, GridLemma
  <2>2. n > 0 <=> Cols(j) > 0 /\ Rows(j) > 0
    BY <2>1
  <2>3. n \in Nat
    BY <2>1, ProductType
  <2>4. ~ (n <= 0) <=> Fits(j)
    BY <1>3, <2>2, <2>3 DEF Fits
  <2> DEFINE g(placed) == [cols |-> Cols(j), rows |-> Rows(j), perSheet |-> n,
                           sheetCount |-> Ceiling(j.quantity, n), placed |-> placed]
  <2>5. Nest(j) = IF Fits(j) THEN g(Least(Least(j.quantity, n), MaxPlacements)) ELSE Refused
    BY <1>1, <1>3, <2>4 DEF HasRoom, Nest, Cols, Rows
  <2>6. PreviewNest(j) = IF Fits(j) THEN g(Least(j.quantity, n)) ELSE Refused
    BY <1>1, <1>3, <2>4 DEF HasRoom, PreviewNest, Cols, Rows
  <2>7. Fits(j) => \A placed : g(placed) # Refused
    BY <2>2, <2>3, <2>4 DEF Refused
  <2> QED
    BY <2>5, <2>6, <2>7
<1> QED
  BY <1>2, <1>3

LEMMA QuotedLemma ==
    ASSUME EstInv
    PROVE  /\ job # NoJob => (saved.nest = Nest(job) /\ shown.nest = PreviewNest(job))
           /\ Quoted => /\ job \in Job /\ Fits(job)
                        /\ saved.price = Price(job, Nest(job))
                        /\ shown.price = PreviewPrice(job, PreviewNest(job))
<1>1. job # NoJob => saved.nest = Nest(job) /\ shown.nest = PreviewNest(job)
  BY DEF EstInv, SavedFigures, ShownFigures
<1>2. Quoted => job \in Job /\ Fits(job)
  BY <1>1, JobType, NestLemma DEF Quoted
<1>3. Quoted => /\ saved.price = Price(job, Nest(job))
                /\ shown.price = PreviewPrice(job, PreviewNest(job))
  BY <1>1, <1>2, NestLemma DEF Quoted, EstInv, SavedFigures, ShownFigures
<1> QED
  BY <1>1, <1>2, <1>3

-----------------------------------------------------------------------------
(* The theorems *)

\* Parts lie within the margins and apart, on sheets of any size.
THEOREM PartsFitThm == EstSpec => []PartsFitTheSheet
<1>1. EstInv => PartsFitTheSheet
  <2> SUFFICES ASSUME EstInv, Quoted,
                      NEW i \in 0..(saved.nest.perSheet - 1), NEW k \in 0..(saved.nest.perSheet - 1)
               PROVE  /\ OnTheSheet(job, Placement(job, saved.nest.cols, i))
                      /\ i # k => Apart(job, Placement(job, saved.nest.cols, i),
                                             Placement(job, saved.nest.cols, k))
    BY DEF PartsFitTheSheet
  <2> DEFINE c == Cols(job)
             r == Rows(job)
             s == job.machine.spacing
             w == job.part.w
             h == job.part.h
             m == job.machine.margin
  <2>1. job \in Job /\ Fits(job) /\ saved.nest = Nest(job)
    BY QuotedLemma DEF Quoted
  <2>2. saved.nest.cols = c /\ saved.nest.perSheet = c * r
    BY <2>1, NestLemma
  <2>3. /\ s \in Nat /\ w \in Nat \ {0} /\ h \in Nat \ {0} /\ m \in Nat
        /\ job.material.sheetW \in Nat /\ job.material.sheetH \in Nat
    BY <2>1 DEF Job
  <2>4. /\ c \in Nat \ {0} /\ r \in Nat \ {0}
        /\ c * (w + s) <= Usable(job.material.sheetW, job.machine) + s
        /\ r * (h + s) <= Usable(job.material.sheetH, job.machine) + s
    BY <2>1, GridLemma DEF Fits
  <2> DEFINE X(n) == m + (n % c) * (w + s)
             Y(n) == m + (n \div c) * (h + s)
  <2>5. \A n : Placement(job, c, n).x = X(n) /\ Placement(job, c, n).y = Y(n)
    BY DEF Placement
  <2>60. /\ i \in 0..(c * r - 1) /\ k \in 0..(c * r - 1)
         /\ i \in Nat /\ k \in Nat /\ w + s \in Nat /\ h + s \in Nat
    BY <2>2, <2>3, <2>4, ProductType
  <2> HIDE DEF c, r, s, w, h, m
  <2>6. /\ i % c \in 0..(c - 1) /\ i \div c \in 0..(r - 1)
        /\ k % c \in 0..(c - 1) /\ k \div c \in 0..(r - 1)
    BY <2>4, <2>60, PlaceLemma
  <2>7. /\ Usable(job.material.sheetW, job.machine) \in Nat
        /\ Usable(job.material.sheetH, job.machine) \in Nat
        /\ Usable(job.material.sheetW, job.machine) = job.material.sheetW - 2 * m
        /\ Usable(job.material.sheetH, job.machine) = job.material.sheetH - 2 * m
    BY <2>1, <2>3 DEF Usable, Fits, HasRoom, m
  <2>8. /\ (i % c) * (w + s) + w <= Usable(job.material.sheetW, job.machine)
        /\ (i \div c) * (h + s) + h <= Usable(job.material.sheetH, job.machine)
    BY <2>3, <2>4, <2>6, <2>7, AxisFits
  <2>9. /\ (i % c) * (w + s) \in Nat /\ (k % c) * (w + s) \in Nat
        /\ (i \div c) * (h + s) \in Nat /\ (k \div c) * (h + s) \in Nat
    BY <2>3, <2>6, ProductType
  <2>10. OnTheSheet(job, Placement(job, c, i))
    BY <2>3, <2>5, <2>7, <2>8, <2>9 DEF OnTheSheet, w, h, m
  <2>11. i # k => Apart(job, Placement(job, c, i), Placement(job, c, k))
    <3> SUFFICES ASSUME i # k PROVE Apart(job, Placement(job, c, i), Placement(job, c, k))
      OBVIOUS
    <3>1. /\ i % c < k % c => (i % c) * (w + s) + (w + s) <= (k % c) * (w + s)
          /\ k % c < i % c => (k % c) * (w + s) + (w + s) <= (i % c) * (w + s)
          /\ i \div c < k \div c => (i \div c) * (h + s) + (h + s) <= (k \div c) * (h + s)
          /\ k \div c < i \div c => (k \div c) * (h + s) + (h + s) <= (i \div c) * (h + s)
      <4>1. /\ i % c \in Nat /\ k % c \in Nat /\ i \div c \in Nat /\ k \div c \in Nat
        BY <2>6
      <4> QED
        BY <2>60, <4>1, AxisApart
    <3>2. \/ i % c < k % c \/ k % c < i % c \/ i \div c < k \div c \/ k \div c < i \div c
      <4>1. i % c # k % c \/ i \div c # k \div c
        BY <2>4, <2>60, PlacesDiffer
      <4> QED
        BY <2>6, <4>1
    <3>3. \/ X(i) + w + s <= X(k) \/ X(k) + w + s <= X(i)
          \/ Y(i) + h + s <= Y(k) \/ Y(k) + h + s <= Y(i)
      BY <2>3, <2>9, <3>1, <3>2
    <3> QED
      BY <2>5, <3>3 DEF Apart, w, h, s
  <2> QED
    BY <2>2, <2>10, <2>11
<1> QED
  BY <1>1, EstInvariant, PTL

\* A refusal has a cause, and no sheet is charged for and stays empty.
THEOREM NoSheetWastedThm == EstSpec => []NoSheetWasted
<1>1. EstInv => NoSheetWasted
  <2> SUFFICES ASSUME EstInv, job # NoJob PROVE NoSheetWasted
    BY DEF NoSheetWasted, Quoted
  <2>1. job \in Job /\ saved.nest = Nest(job)
    BY JobType, QuotedLemma
  <2>2. saved.nest = Refused => TooLarge(job) \/ ExactFit(job)
    <3> SUFFICES ASSUME ~ Fits(job) PROVE TooLarge(job) \/ ExactFit(job)
      BY <2>1, NestLemma
    <3>1. CASE HasRoom(job)
      BY <2>1, <3>1, GridLemma DEF Fits
    <3>2. CASE ~ HasRoom(job)
      BY <2>1, <3>2 DEF HasRoom, TooLarge, Usable, Job
    <3> QED
      BY <3>1, <3>2
  <2>3. ASSUME Quoted
        PROVE  /\ \A s \in 1..saved.nest.sheetCount : OnSheet(job, saved.nest.perSheet, s) > 0
               /\ saved.nest.sheetCount * saved.nest.perSheet >= job.quantity
    <3> DEFINE n == Cols(job) * Rows(job)
               sheets == Ceiling(job.quantity, n)
    <3>1. Fits(job) /\ saved.nest.perSheet = n /\ saved.nest.sheetCount = sheets
      BY <2>1, <2>3, QuotedLemma, NestLemma
    <3>2. Cols(job) \in Nat \ {0} /\ Rows(job) \in Nat \ {0}
      BY <2>1, <3>1, GridLemma DEF Fits
    <3>3. n \in Nat \ {0} /\ job.quantity \in Nat \ {0}
      BY <2>1, <3>2 DEF Job
    <3> HIDE DEF n
    <3>4. sheets \in Nat \ {0} /\ sheets * n >= job.quantity /\ (sheets - 1) * n < job.quantity
      BY <3>3, CeilingLemma
    <3> HIDE DEF sheets
    <3>5. ASSUME NEW s \in 1..sheets PROVE OnSheet(job, n, s) > 0
      <4>1. (s - 1) * n <= (sheets - 1) * n /\ (s - 1) * n \in Nat /\ (sheets - 1) * n \in Nat
        BY <3>3, <3>4, ProductMonotone, ProductType
      <4> QED
        BY <3>3, <3>4, <4>1 DEF OnSheet, Least
    <3> QED
      BY <3>1, <3>4, <3>5
  <2> QED
    BY <2>2, <2>3 DEF NoSheetWasted
<1> QED
  BY <1>1, EstInvariant, PTL

\* The copy in the browser and the service agree on every figure.
THEOREM PreviewIsTheQuoteThm == EstSpec => []PreviewIsTheQuote
<1>1. EstInv => PreviewIsTheQuote
  <2> SUFFICES ASSUME EstInv, job # NoJob PROVE PreviewIsTheQuote
    BY DEF PreviewIsTheQuote
  <2>1. /\ job \in Job /\ saved.nest = Nest(job) /\ shown.nest = PreviewNest(job)
        /\ Quoted => Fits(job)
    BY JobType, QuotedLemma
  <2>2. (saved.nest = Refused) = (shown.nest = Refused)
    BY <2>1, NestLemma
  <2>3. ASSUME Quoted
        PROVE  /\ saved.price = shown.price
               /\ \A f \in {"cols", "rows", "perSheet", "sheetCount"} :
                      saved.nest[f] = shown.nest[f]
               /\ saved.nest.placed <= shown.nest.placed
    <3>1. /\ \A f \in {"cols", "rows", "perSheet", "sheetCount"} :
                saved.nest[f] = shown.nest[f]
          /\ saved.nest.sheetCount = shown.nest.sheetCount
      BY <2>1, <2>3, NestLemma
    <3>2. saved.price = Price(job, saved.nest) /\ shown.price = PreviewPrice(job, shown.nest)
      BY <2>1, <2>3, QuotedLemma
    <3>3. saved.price = shown.price
      BY <3>1, <3>2 DEF Price, PreviewPrice, Total
    <3>4. Cols(job) * Rows(job) \in Nat /\ job.quantity \in Nat
      BY <2>1, <2>3, GridLemma, ProductType DEF Fits, Job
    <3>5. saved.nest.placed <= shown.nest.placed
      BY <2>1, <2>3, <3>4, NestLemma DEF Least, MaxPlacements
    <3> QED
      BY <3>1, <3>3, <3>5
  <2> QED
    BY <2>2, <2>3 DEF PreviewIsTheQuote
<1> QED
  BY <1>1, EstInvariant, PTL

\* A smaller order has the grid of the larger one, no more sheets, and no higher line.
LEMMA SmallerOrder ==
    ASSUME NEW j \in Job, Fits(j), NEW q \in 1..j.quantity
    PROVE  LET smaller == [j EXCEPT !.quantity = q]
               less    == Price(smaller, Nest(smaller))
               more    == Price(j, Nest(j))
           IN  /\ less.total <= more.total
               /\ \A f \in DOMAIN less.lines : less.lines[f] <= more.lines[f]
<1> DEFINE smaller == [j EXCEPT !.quantity = q]
           n == Cols(j) * Rows(j)
<1>1. /\ j.quantity \in Nat \ {0} /\ q \in Nat \ {0} /\ q <= j.quantity
      /\ j.part.cut \in Nat /\ j.bends \in Nat /\ j.material.multiplier \in Nat
      /\ j.rates \in Rate
  BY DEF Job
<1>2. /\ smaller \in Job /\ smaller.quantity = q
      /\ smaller.part = j.part /\ smaller.material = j.material /\ smaller.machine = j.machine
      /\ smaller.rates = j.rates /\ smaller.bends = j.bends /\ smaller.slip = j.slip
  BY <1>1 DEF Job
<1>3. Cols(smaller) = Cols(j) /\ Rows(smaller) = Rows(j) /\ Fits(smaller)
  BY <1>2 DEF Cols, Rows, Fits, HasRoom
<1>4. Nest(j).sheetCount = Ceiling(j.quantity, n) /\ Nest(smaller).sheetCount = Ceiling(q, n)
  BY <1>2, <1>3, NestLemma
<1>5. n \in Nat \ {0}
  <2>1. Cols(j) \in Nat \ {0} /\ Rows(j) \in Nat \ {0}
    BY GridLemma DEF Fits
  <2> QED
    BY <2>1
<1> DEFINE many == Ceiling(j.quantity, n)
           few  == Ceiling(q, n)
<1>6. few \in Nat \ {0} /\ many \in Nat \ {0} /\ few <= many
  BY <1>1, <1>5, CeilingLemma, CeilingMonotone
<1> DEFINE rate == j.rates
           linesOf(x, sheets) == LineAmounts(j.part.cut * x, j.bends * x, sheets,
                                             j.material.multiplier, rate)
           least == linesOf(q, few)
           most  == linesOf(j.quantity, many)
<1>7. /\ Price(smaller, Nest(smaller)) = [lines |-> least, total |-> Total(least, rate)]
      /\ Price(j, Nest(j)) = [lines |-> most, total |-> Total(most, rate)]
  BY <1>2, <1>4 DEF Price
<1> HIDE DEF few, many, n, smaller
<1>8. /\ rate.setupFee \in Nat /\ rate.costPerLinearFoot \in Nat /\ rate.perSheetCost \in Nat
      /\ rate.handlingFee \in Nat /\ rate.costPerBend \in Nat /\ rate.minimumOrder \in Nat
  BY <1>1 DEF Rate
<1> HIDE DEF rate
<1> DEFINE amounts == {"setup", "cutting", "sheets", "handling", "bends"}
<1>9. \A f \in amounts : least[f] \in Nat /\ most[f] \in Nat /\ least[f] <= most[f]
  <2>1. /\ least.setup = Round(rate.setupFee, 100) /\ most.setup = least.setup
        /\ least.handling = Round(rate.handlingFee, 100) /\ most.handling = least.handling
    BY DEF LineAmounts, Cents
  <2> HIDE DEF least, most
  <2>2. least.setup \in Nat /\ least.handling \in Nat
    BY <1>8, <2>1, RoundMonotone
  <2>3. least.cutting \in Nat /\ most.cutting \in Nat /\ least.cutting <= most.cutting
    <3> DEFINE a == (j.part.cut * q) * rate.costPerLinearFoot
               b == (j.part.cut * j.quantity) * rate.costPerLinearFoot
    <3>1. least.cutting = Round(a, 304800) /\ most.cutting = Round(b, 304800)
      BY DEF LineAmounts, least, most
    <3>2. j.part.cut * q \in Nat /\ j.part.cut * j.quantity \in Nat
          /\ j.part.cut * q <= j.part.cut * j.quantity
      BY <1>1, ProductType, ProductMonotone, OneLess
    <3>3. a \in Nat /\ b \in Nat /\ a <= b
      BY <1>8, <3>2, ProductType, ProductMonotone
    <3> QED
      BY <3>1, <3>3, RoundMonotone
  <2>4. least.sheets \in Nat /\ most.sheets \in Nat /\ least.sheets <= most.sheets
    <3> DEFINE a == few * rate.perSheetCost * j.material.multiplier
               b == many * rate.perSheetCost * j.material.multiplier
    <3>1. least.sheets = Round(a, 10000) /\ most.sheets = Round(b, 10000)
      BY DEF LineAmounts, least, most
    <3>2. few * rate.perSheetCost \in Nat /\ many * rate.perSheetCost \in Nat
          /\ few * rate.perSheetCost <= many * rate.perSheetCost
      BY <1>6, <1>8, ProductType, ProductMonotone
    <3>3. a \in Nat /\ b \in Nat /\ a <= b
      BY <1>1, <3>2, ProductType, ProductMonotone
    <3> QED
      BY <3>1, <3>3, RoundMonotone
  <2>5. least.bends \in Nat /\ most.bends \in Nat /\ least.bends <= most.bends
    <3> DEFINE a == (j.bends * q) * rate.costPerBend
               b == (j.bends * j.quantity) * rate.costPerBend
    <3>1. least.bends = Round(a, 100) /\ most.bends = Round(b, 100)
      BY DEF LineAmounts, Cents, least, most
    <3>2. j.bends * q \in Nat /\ j.bends * j.quantity \in Nat
          /\ j.bends * q <= j.bends * j.quantity
      BY <1>1, ProductType, ProductMonotone, OneLess
    <3>3. a \in Nat /\ b \in Nat /\ a <= b
      BY <1>8, <3>2, ProductType, ProductMonotone
    <3> QED
      BY <3>1, <3>3, RoundMonotone
  <2> QED
    BY <2>1, <2>2, <2>3, <2>4, <2>5
<1>10. Subtotal(least) \in Nat /\ Subtotal(most) \in Nat /\ Subtotal(least) <= Subtotal(most)
  <2> HIDE DEF least, most
  <2> QED
    BY <1>9 DEF Subtotal
<1>11. Cents(rate.minimumOrder) \in Nat
  BY <1>8, RoundMonotone DEF Cents
<1>12. Total(least, rate) <= Total(most, rate)
  <2> HIDE DEF least, most
  <2> QED
    BY <1>10, <1>11 DEF Total
<1>13. DOMAIN least = amounts
  BY DEF LineAmounts
<1> HIDE DEF least, most
<1> QED
  BY <1>7, <1>9, <1>12, <1>13 DEF smaller

\* A larger order never undercuts a smaller one, whatever the price list.
THEOREM MorePartsThm == EstSpec => []MorePartsNeverCostLess
<1>1. EstInv => MorePartsNeverCostLess
  <2> SUFFICES ASSUME EstInv, Quoted PROVE MorePartsNeverCostLess
    BY DEF MorePartsNeverCostLess
  <2>1. job \in Job /\ Fits(job) /\ saved.price = Price(job, Nest(job))
    BY QuotedLemma
  <2> QED
    BY <2>1, SmallerOrder DEF MorePartsNeverCostLess
<1> QED
  BY <1>1, EstInvariant, PTL
=============================================================================
