----------------------------- MODULE StoreProofs -----------------------------
(***************************************************************************)
(* ObjectStore's safety for any callers, keys, batches, lifetimes and      *)
(* overrides.  The lifetime a URL has left is bounded from the moment it is*)
(* signed; the batch that goes on signing, and the client that waits with  *)
(* it, can only shorten it.                                                *)
(***************************************************************************)
EXTENDS ObjectStore, TLAPS

(* The URLs of a map belong to a call, and end in time counted from t.     *)
Belongs(f, asked, t) ==
  \A k \in DOMAIN f :
    /\ f[k] \in UrlType /\ f[k].key = k /\ f[k].method = asked.method
    /\ asked.method = "PUT" => f[k].contentType = asked.contentType
    /\ f[k].until =< t + Lifetime(asked.override)

Types ==
  /\ now \in 0 .. MaxTime /\ presignTTL \in TTLs
  /\ objects = [k \in Keys |-> objects[k]] /\ call = [c \in Callers |-> call[c]]
  /\ urls = [c \in Callers |-> urls[c]] /\ result = [c \in Callers |-> result[c]]

(* The map of a batch under way holds the keys passed so far.              *)
Passed(c) == {call[c].keys[n] : n \in 1 .. call[c].next - 1}
Signing(c) ==
  ~Idle(c) =>
    /\ call[c] \in CallType /\ call[c].next =< Len(call[c].keys) + 1
    /\ DOMAIN urls[c] = Passed(c) /\ Belongs(urls[c], call[c], now)

(* The URLs of a result are of the batch it answers, counted from then.    *)
Answered(c) ==
  /\ result[c].answer \in {"none", "ok", "error"} /\ result[c].at \in 0 .. now
  /\ result[c].asked # None =>
       DOMAIN result[c].urls = IF result[c].answer = "ok" THEN ToSet(result[c].asked.keys) ELSE {}
  /\ DOMAIN result[c].urls # {} =>
       result[c].asked \in CallType /\ Belongs(result[c].urls, result[c].asked, result[c].at)

Kept(k) ==
  objects[k] # None =>
    /\ objects[k].type \in ContentTypes \ {""}
    /\ objects[k].via # None =>
         /\ objects[k].via.contentType \in {"", objects[k].type}
         /\ objects[k].via.after =< Lifetime(objects[k].via.override)

IInv ==
  /\ Types
  /\ \A c \in Callers : UrlMap(urls[c]) /\ Signing(c) /\ Answered(c)
  /\ \A k \in Keys : Kept(k)

-----------------------------------------------------------------------------
(* A lifetime that is not refused is the one asked for.                    *)
LEMMA TtlIsLifetime ==
  ASSUME presignTTL \in TTLs, NEW override \in Overrides, ~(Ttl(override) < 0)
  PROVE  Expires(Ttl(override)) = Lifetime(override) /\ Lifetime(override) \in Nat
BY StoreAssumption DEF Ttl, Expires, Lifetime

LEMMA Empties == DOMAIN NoUrls = {} /\ UrlMap(NoUrls)
BY DEF NoUrls, UrlMap

LEMMA Typed == \A type \in ContentTypes : TypeOr(type) \in ContentTypes \ {""}
BY DEF ContentTypes, TypeOr

LEMMA Initially == Init => IInv
<1> SUFFICES ASSUME Init PROVE IInv
  OBVIOUS
<1>1. Types
  BY StoreAssumption DEF Init, Types
<1>2. ASSUME NEW c \in Callers PROVE UrlMap(urls[c]) /\ Signing(c) /\ Answered(c)
  BY Empties DEF Init, Signing, Answered, Idle, NoResult
<1>3. ASSUME NEW k \in Keys PROVE Kept(k)
  BY DEF Init, Kept
<1> QED
  BY <1>1, <1>2, <1>3 DEF IInv

-----------------------------------------------------------------------------
(* What a step that leaves a caller alone, as time goes on, leaves true.   *)

LEMMA BelongsLater ==
  ASSUME Types, presignTTL' = presignTTL, NEW f, NEW asked \in CallType,
         NEW t \in Int, NEW u \in Int, t =< u, Belongs(f, asked, t)
  PROVE  Belongs(f, asked, u) /\ \A k \in DOMAIN f : f[k].until =< u + Lifetime(asked.override)'
<1>1. Lifetime(asked.override) \in Int /\ Lifetime(asked.override)' = Lifetime(asked.override)
  BY StoreAssumption DEF Types, CallType, Lifetime, Expires
<1>2. \A k \in DOMAIN f : f[k].until \in Int
  BY DEF Belongs, UrlType
<1> QED
  BY <1>1, <1>2 DEF Belongs

LEMMA SameBatch ==
  ASSUME IInv, Types', presignTTL' = presignTTL, now =< now', NEW c \in Callers,
         call'[c] = call[c], urls'[c] = urls[c]
  PROVE  UrlMap(urls[c])' /\ Signing(c)'
<1>1. UrlMap(urls[c])' /\ (Idle(c)' <=> Idle(c)) /\ Passed(c)' = Passed(c)
  BY DEF IInv, UrlMap, Idle, Passed
<1>2. CASE Idle(c)
  BY <1>1, <1>2 DEF Signing
<1>3. CASE ~Idle(c)
  <2>1. Signing(c)!2
    BY <1>3 DEF IInv, Signing
  <2>2. now \in Int /\ now' \in Int
    BY StoreAssumption DEF IInv, Types
  <2>3. Belongs(urls[c], call[c], now)'
    BY <2>1, <2>2, BelongsLater DEF IInv, Belongs
  <2> QED
    BY <1>1, <2>1, <2>3 DEF Signing
<1> QED
  BY <1>1, <1>2, <1>3

LEMMA SameResult ==
  ASSUME IInv, Types', presignTTL' = presignTTL, now =< now', NEW c \in Callers, result'[c] = result[c]
  PROVE  Answered(c)'
<1>1. Answered(c) /\ now \in Int /\ now' \in Int
  BY StoreAssumption DEF IInv, Types
<1>2. result'[c].at \in 0 .. now'
  BY <1>1 DEF Answered
<1>3. CASE DOMAIN result[c].urls = {}
  BY <1>1, <1>2, <1>3 DEF Answered
<1>4. CASE DOMAIN result[c].urls # {}
  <2>1. result[c].asked \in CallType /\ Belongs(result[c].urls, result[c].asked, result[c].at)
    BY <1>1, <1>4 DEF Answered
  <2>2. result[c].at \in Int /\ result[c].at =< result[c].at
    BY <1>1 DEF Answered
  <2>3. Belongs(result[c].urls, result[c].asked, result[c].at)'
    BY <2>1, <2>2, BelongsLater DEF IInv, Belongs
  <2> QED
    BY <1>1, <1>2, <2>1, <2>3 DEF Answered
<1> QED
  BY <1>3, <1>4

(* A result without URLs, of a single call or of a batch that failed.      *)
LEMMA BareResult ==
  ASSUME Types', NEW c \in Callers, NEW answer \in {"none", "ok", "error"}, NEW asked,
         NEW at \in 0 .. now',
         result'[c] = [answer |-> answer, urls |-> NoUrls, asked |-> asked, at |-> at],
         answer # "ok" \/ asked = None
  PROVE  Answered(c)'
BY Empties DEF Answered

LEMMA SameObject ==
  ASSUME IInv, presignTTL' = presignTTL, NEW k \in Keys, objects'[k] = objects[k]
  PROVE  Kept(k)'
BY DEF IInv, Kept, Lifetime, Expires

-----------------------------------------------------------------------------
(* Calls to S3: nothing of a batch moves, and an object is gone, as it was,*)
(* or stored by the program.                                               *)
LEMMA SingleCall ==
  ASSUME IInv, UNCHANGED <<now, presignTTL, call, urls>>, NEW c \in Callers, Idle(c),
         NEW answer \in {"ok", "error"}, Return(c, answer, NoUrls),
         NEW k \in Keys, NEW object, objects' \in {objects, [objects EXCEPT ![k] = object]},
         object = None \/ \E type \in ContentTypes : object = Stored(TypeOr(type), None)
  PROVE  IInv'
<1>1. result' = [result EXCEPT ![c] = [answer |-> answer, urls |-> NoUrls, asked |-> None, at |-> now]]
  BY DEF Return, Idle
<1>2. Types'
  BY <1>1 DEF IInv, Types
<1>3. now \in 0 .. now' /\ now =< now'
  BY StoreAssumption DEF IInv, Types
<1>4. ASSUME NEW e \in Callers PROVE UrlMap(urls[e])' /\ Signing(e)' /\ Answered(e)'
  <2>1. UrlMap(urls[e])' /\ Signing(e)'
    BY <1>2, <1>3, SameBatch
  <2>2. CASE e = c
    <3>1. result'[c] = [answer |-> answer, urls |-> NoUrls, asked |-> None, at |-> now]
      BY <1>1 DEF IInv, Types
    <3> QED
      BY <1>2, <1>3, <2>1, <2>2, <3>1, BareResult
  <2>3. CASE e # c
    BY <1>1, <1>2, <1>3, <2>1, <2>3, SameResult
  <2> QED
    BY <2>2, <2>3
<1>5. ASSUME NEW j \in Keys PROVE Kept(j)'
  <2>1. CASE objects'[j] = objects[j]
    BY <2>1, SameObject
  <2>2. CASE objects'[j] # objects[j]
    <3>1. objects'[j] = object
      BY <2>2 DEF IInv, Types
    <3>2. CASE object = None
      BY <3>1, <3>2 DEF Kept
    <3>3. CASE \E type \in ContentTypes : object = Stored(TypeOr(type), None)
      <4>1. PICK type \in ContentTypes : objects'[j] = Stored(TypeOr(type), None)
        BY <3>1, <3>3
      <4>2. objects'[j].type = TypeOr(type) /\ objects'[j].via = None
        BY <4>1 DEF Stored
      <4>3. TypeOr(type) \in ContentTypes \ {""}
        BY Typed
      <4> QED
        BY <4>2, <4>3 DEF Kept
    <3> QED
      BY <3>2, <3>3
  <2> QED
    BY <2>1, <2>2
<1> QED
  BY <1>2, <1>4, <1>5 DEF IInv

(* What an action of one caller has to show beside its own state.          *)
LEMMA OneCaller ==
  ASSUME IInv, Types', UNCHANGED <<now, presignTTL, objects>>, NEW c \in Callers,
         \A e \in Callers \ {c} : call'[e] = call[e] /\ urls'[e] = urls[e] /\ result'[e] = result[e],
         UrlMap(urls[c])' /\ Signing(c)' /\ Answered(c)'
  PROVE  IInv'
<1>1. now =< now'
  BY StoreAssumption DEF IInv, Types
<1>2. ASSUME NEW e \in Callers PROVE UrlMap(urls[e])' /\ Signing(e)' /\ Answered(e)'
  BY <1>1, SameBatch, SameResult
<1>3. ASSUME NEW k \in Keys PROVE Kept(k)'
  BY SameObject
<1> QED
  BY <1>2, <1>3 DEF IInv

(* A batch begins with an empty map and without a result.                  *)
LEMMA Begins ==
  ASSUME IInv, NEW c \in Callers, NEW method \in {"GET", "PUT"}, NEW keys \in Batches,
         NEW contentType \in ContentTypes, NEW override \in Overrides,
         Presign(c, method, keys, contentType, override)
  PROVE  IInv'
<1>1. /\ UNCHANGED <<now, presignTTL, objects>>
      /\ call' = [call EXCEPT ![c] = [method |-> method, keys |-> keys, contentType |-> contentType,
                                      override |-> override, next |-> 1]]
      /\ urls' = [urls EXCEPT ![c] = NoUrls] /\ result' = [result EXCEPT ![c] = NoResult]
  BY DEF Presign
<1>2. Types'
  BY <1>1 DEF IInv, Types
<1>3. /\ call'[c] = [method |-> method, keys |-> keys, contentType |-> contentType,
                     override |-> override, next |-> 1]
      /\ urls'[c] = NoUrls /\ result'[c] = NoResult
  BY <1>1 DEF IInv, Types
<1>4. Signing(c)'
  <2>1. call'[c] \in CallType /\ call'[c].next = 1 /\ call'[c].keys = keys
    BY <1>3 DEF CallType
  <2>2. Len(keys) \in Nat
    BY StoreAssumption
  <2>3. Passed(c)' = {}
    BY <2>1 DEF Passed
  <2>4. Belongs(urls[c], call[c], now)'
    BY <1>3, Empties DEF Belongs
  <2> QED
    BY <1>3, <2>1, <2>2, <2>3, <2>4, Empties DEF Signing
<1>5. Answered(c)'
  <2>1. 0 \in 0 .. now'
    BY <1>1, StoreAssumption DEF IInv, Types
  <2> QED
    BY <1>2, <1>3, <2>1, BareResult DEF NoResult
<1> QED
  BY <1>1, <1>2, <1>3, <1>4, <1>5, Empties, OneCaller DEF IInv, Types

(* The next key's URL joins the map, with the lifetime counted from now.   *)
LEMMA Signs ==
  ASSUME IInv, NEW c \in Callers, More(c), ~Refused(Key(c), Ttl(call[c].override)),
         NEW contentType \in ContentTypes,
         call[c].method = "PUT" => contentType = call[c].contentType,
         Sign(c, Url(call[c].method, Key(c), contentType, Ttl(call[c].override)))
  PROVE  IInv'
<1> DEFINE url == Url(call[c].method, Key(c), contentType, Ttl(call[c].override))
<1>1. /\ UNCHANGED <<now, presignTTL, objects, result>>
      /\ call' = [call EXCEPT ![c].next = @ + 1]
      /\ urls' = [urls EXCEPT ![c] = [k \in DOMAIN @ \cup {Key(c)} |-> IF k = Key(c) THEN url ELSE @[k]]]
  BY DEF Sign
<1>2. /\ call[c] \in CallType /\ call[c].next =< Len(call[c].keys)
      /\ DOMAIN urls[c] = Passed(c) /\ Belongs(urls[c], call[c], now)
  BY DEF IInv, Signing, More
<1>3. call[c].keys \in Seq(Keys \cup {BadKey}) /\ call[c].next \in 1 .. Len(call[c].keys)
  BY <1>2, StoreAssumption DEF CallType
<1>4. Key(c) \in Keys
  BY <1>3 DEF Refused, Key
<1>5. /\ url \in UrlType /\ url.key = Key(c) /\ url.method = call[c].method
      /\ call[c].method = "PUT" => url.contentType = call[c].contentType
      /\ url.until =< now + Lifetime(call[c].override)
  <2>1. call[c].override \in Overrides /\ call[c].method \in {"GET", "PUT"}
    BY <1>2 DEF CallType
  <2>2. /\ Expires(Ttl(call[c].override)) = Lifetime(call[c].override)
        /\ Lifetime(call[c].override) \in Nat
    BY <2>1, TtlIsLifetime DEF IInv, Types, Refused
  <2>3. now \in Nat
    BY StoreAssumption DEF IInv, Types
  <2> QED
    BY <1>4, <2>1, <2>2, <2>3 DEF Url, UrlType
<1> HIDE DEF url
<1>6. Types'
  BY <1>1 DEF IInv, Types
<1>7. /\ urls'[c] = [k \in DOMAIN urls[c] \cup {Key(c)} |-> IF k = Key(c) THEN url ELSE urls[c][k]]
      /\ call'[c] = [call[c] EXCEPT !.next = @ + 1]
  BY <1>1 DEF IInv, Types
<1>8. Belongs(urls'[c], call[c], now)
  BY <1>2, <1>5, <1>7 DEF Belongs
<1>9. UrlMap(urls[c])'
  <2>1. \A k \in DOMAIN urls[c] : k \in Keys
    BY DEF IInv, UrlMap
  <2> QED
    BY <1>4, <1>7, <1>8, <2>1 DEF UrlMap, Belongs
<1>10. /\ call'[c] \in CallType /\ call'[c].next = call[c].next + 1 /\ call'[c].keys = call[c].keys
       /\ call'[c].method = call[c].method /\ call'[c].contentType = call[c].contentType
       /\ call'[c].override = call[c].override
  BY <1>2, <1>7 DEF CallType
<1>11. Signing(c)'
  <2>1. Passed(c)' = Passed(c) \cup {Key(c)}
    BY <1>3, <1>10 DEF Passed, Key
  <2>2. Belongs(urls[c], call[c], now)'
    BY <1>1, <1>8, <1>10 DEF Belongs, Lifetime, Expires
  <2> QED
    BY <1>2, <1>3, <1>7, <1>10, <2>1, <2>2 DEF Signing
<1>12. Answered(c)'
  BY <1>1, <1>6, SameResult, StoreAssumption DEF IInv, Types
<1> QED
  BY <1>1, <1>6, <1>9, <1>11, <1>12, OneCaller DEF IInv, Types

(* A batch ends: without URLs at a bad key, and else with one for each.    *)
LEMMA Fails ==
  ASSUME IInv, NEW c \in Callers, FailFast(c)
  PROVE  IInv'
<1>1. /\ UNCHANGED <<now, presignTTL, objects, urls>> /\ call' = [call EXCEPT ![c] = None]
      /\ result' = [result EXCEPT ![c] = [answer |-> "error", urls |-> NoUrls, asked |-> call[c], at |-> now]]
  BY DEF FailFast, Return
<1>2. Types'
  BY <1>1 DEF IInv, Types
<1>3. call'[c] = None
  BY <1>1 DEF IInv, Types
<1>4. result'[c] = [answer |-> "error", urls |-> NoUrls, asked |-> call[c], at |-> now]
  BY <1>1 DEF IInv, Types
<1>5. Answered(c)'
  <2>1. now \in 0 .. now'
    BY <1>1, StoreAssumption DEF IInv, Types
  <2> QED
    BY <1>2, <1>4, <2>1, BareResult
<1>6. UrlMap(urls[c])' /\ Signing(c)'
  BY <1>1, <1>3 DEF IInv, UrlMap, Signing, Idle
<1> QED
  BY <1>1, <1>2, <1>5, <1>6, OneCaller DEF IInv, Types

LEMMA Finishes ==
  ASSUME IInv, NEW c \in Callers, Finish(c)
  PROVE  IInv'
<1>1. /\ UNCHANGED <<now, presignTTL, objects, urls>> /\ call' = [call EXCEPT ![c] = None]
      /\ result' = [result EXCEPT ![c] = [answer |-> "ok", urls |-> urls[c], asked |-> call[c], at |-> now]]
  BY DEF Finish, Return
<1>2. Types'
  BY <1>1 DEF IInv, Types
<1>3. call'[c] = None
  BY <1>1 DEF IInv, Types
<1>4. result'[c] = [answer |-> "ok", urls |-> urls[c], asked |-> call[c], at |-> now]
  BY <1>1 DEF IInv, Types
<1>5. /\ call[c] \in CallType /\ DOMAIN urls[c] = Passed(c) /\ Belongs(urls[c], call[c], now)
      /\ call[c].next =< Len(call[c].keys) + 1 /\ ~(call[c].next =< Len(call[c].keys))
  BY DEF Finish, More, IInv, Signing
<1>6. DOMAIN urls[c] = ToSet(call[c].keys)
  <2>1. call[c].keys \in Seq(Keys \cup {BadKey}) /\ call[c].next = Len(call[c].keys) + 1
    BY <1>5, StoreAssumption DEF CallType
  <2> QED
    BY <1>5, <2>1 DEF Passed, ToSet
<1>7. Answered(c)'
  <2>1. now \in 0 .. now'
    BY <1>1, StoreAssumption DEF IInv, Types
  <2>2. Belongs(result[c].urls, result[c].asked, result[c].at)'
    BY <1>1, <1>4, <1>5 DEF Belongs, Lifetime, Expires
  <2> QED
    BY <1>4, <1>5, <1>6, <2>1, <2>2 DEF Answered
<1>8. UrlMap(urls[c])' /\ Signing(c)'
  BY <1>1, <1>3 DEF IInv, UrlMap, Signing, Idle
<1> QED
  BY <1>1, <1>2, <1>7, <1>8, OneCaller DEF IInv, Types

(* A client uploads in the time its URL has left, with the type it names.  *)
LEMMA Uploads ==
  ASSUME IInv, NEW c \in Callers, NEW k \in Keys, NEW sent \in ContentTypes, Upload(c, k, sent)
  PROVE  IInv'
<1>1. PICK asked, url, at, via :
        /\ asked = result[c].asked /\ url = result[c].urls[k] /\ at = result[c].at
        /\ via = [contentType |-> asked.contentType, override |-> asked.override, after |-> now - at]
  OBVIOUS
<1>2. /\ UNCHANGED <<now, presignTTL, call, urls, result>> /\ k \in DOMAIN result[c].urls
      /\ url.method = "PUT" /\ now =< url.until /\ url.contentType \in {"", sent}
      /\ objects' = [objects EXCEPT ![k] = Stored(TypeOr(sent), via)]
  BY <1>1 DEF Upload
<1>3. now \in Nat /\ now =< now' /\ presignTTL \in Int /\ Types'
  <2>1. now \in Nat /\ presignTTL \in Int /\ presignTTL \in TTLs /\ now \in 0 .. MaxTime
    BY StoreAssumption DEF IInv, Types
  <2>2. now' = now /\ presignTTL' = presignTTL
    BY <1>2
  <2>3. objects' = [j \in Keys |-> objects'[j]]
    BY <1>2 DEF IInv, Types
  <2>4. /\ call' = [e \in Callers |-> call'[e]] /\ urls' = [e \in Callers |-> urls'[e]]
        /\ result' = [e \in Callers |-> result'[e]]
    BY <1>2 DEF IInv, Types
  <2> QED
    BY <2>1, <2>2, <2>3, <2>4 DEF Types
<1>4. ASSUME NEW e \in Callers PROVE UrlMap(urls[e])' /\ Signing(e)' /\ Answered(e)'
  BY <1>2, <1>3, SameBatch, SameResult
<1>5. ASSUME NEW j \in Keys, j # k PROVE Kept(j)'
  BY <1>2, <1>5, SameObject DEF IInv, Types
<1>6. Kept(k)'
  <2>1. asked \in CallType /\ at \in 0 .. now /\ Belongs(result[c].urls, asked, at)
    BY <1>1, <1>2 DEF IInv, Answered
  <2>2. /\ url.until \in Nat /\ url.contentType = asked.contentType
        /\ url.until =< at + Lifetime(asked.override)
    BY <1>1, <1>2, <2>1 DEF Belongs, UrlType
  <2>3. Lifetime(asked.override) \in Int /\ Lifetime(asked.override)' = Lifetime(asked.override)
    <3>1. asked.override \in Int
      BY <2>1, StoreAssumption DEF CallType
    <3>2. presignTTL' = presignTTL
      BY <1>2
    <3>3. DefaultTTL \in Int
      BY StoreAssumption
    <3> QED
      BY <1>3, <3>1, <3>2, <3>3 DEF Lifetime, Expires
  <2>4. now - at =< Lifetime(asked.override)
    <3>1. at \in Int
      BY <1>3, <2>1
    <3>2. now =< url.until
      BY <1>2
    <3> QED
      BY <1>3, <2>2, <2>3, <3>1, <3>2
  <2>5. asked.contentType \in {"", TypeOr(sent)}
    BY <1>2, <2>2 DEF TypeOr
  <2>6. objects'[k].type = TypeOr(sent) /\ objects'[k].via = via
    BY <1>2 DEF IInv, Types, Stored
  <2>7. /\ via.contentType = asked.contentType /\ via.override = asked.override
        /\ via.after = now - at
    BY <1>1
  <2> QED
    BY <2>3, <2>4, <2>5, <2>6, <2>7, Typed DEF Kept
<1> QED
  BY <1>3, <1>4, <1>5, <1>6 DEF IInv

LEMMA Ticks == ASSUME IInv, Tick PROVE IInv'
<1>1. Types' /\ now =< now' /\ UNCHANGED <<presignTTL, objects, call, urls, result>>
  BY StoreAssumption DEF IInv, Types, Tick
<1>2. ASSUME NEW c \in Callers PROVE UrlMap(urls[c])' /\ Signing(c)' /\ Answered(c)'
  BY <1>1, SameBatch, SameResult
<1>3. ASSUME NEW k \in Keys PROVE Kept(k)'
  BY <1>1, SameObject
<1> QED
  BY <1>1, <1>2, <1>3 DEF IInv

-----------------------------------------------------------------------------
LEMMA Preserved == IInv /\ [Next]_vars => IInv'
<1> SUFFICES ASSUME IInv, [Next]_vars PROVE IInv'
  OBVIOUS
<1>1. CASE UNCHANGED vars
  <2>1. Types' /\ now =< now' /\ UNCHANGED <<presignTTL, objects, call, urls, result>>
    BY <1>1, StoreAssumption DEF vars, IInv, Types
  <2>2. ASSUME NEW c \in Callers PROVE UrlMap(urls[c])' /\ Signing(c)' /\ Answered(c)'
    BY <2>1, SameBatch, SameResult
  <2>3. ASSUME NEW k \in Keys PROVE Kept(k)'
    BY <2>1, SameObject
  <2> QED
    BY <2>1, <2>2, <2>3 DEF IInv
<1>2. ASSUME NEW c \in Callers, NEW k \in Keys, Get(c, k) PROVE IInv'
  <2>1. PICK answer \in {"ok", "error"} : Return(c, answer, NoUrls)
    BY <1>2 DEF Get
  <2> QED
    BY <1>2, <2>1, SingleCall DEF Get
<1>3. ASSUME NEW c \in Callers, NEW k \in Keys, Delete(c, k) PROVE IInv'
  <2>1. PICK answer \in {"ok", "error"} : Return(c, answer, NoUrls)
    BY <1>3 DEF Delete
  <2> QED
    BY <1>3, <2>1, SingleCall DEF Delete
<1>4. ASSUME NEW c \in Callers, NEW k \in Keys, NEW type \in ContentTypes, Put(c, k, type) PROVE IInv'
  <2>1. PICK answer \in {"ok", "error"} : Return(c, answer, NoUrls)
    BY <1>4 DEF Put
  <2> QED
    BY <1>4, <2>1, SingleCall DEF Put
<1>5. ASSUME NEW c \in Callers, NEW k \in Keys, NEW type \in ContentTypes, Upload(c, k, type) PROVE IInv'
  BY <1>5, Uploads
<1>6. ASSUME NEW c \in Callers, NEW keys \in Batches, NEW override \in Overrides,
             PresignedGetURLs(c, keys, override)
      PROVE  IInv'
  BY <1>6, Begins DEF PresignedGetURLs, ContentTypes
<1>7. ASSUME NEW c \in Callers, NEW keys \in Batches, NEW override \in Overrides,
             NEW type \in ContentTypes, PresignedPutURLs(c, keys, type, override)
      PROVE  IInv'
  BY <1>7, Begins DEF PresignedPutURLs
<1>8. ASSUME NEW c \in Callers, PresignedGetURL(c) PROVE IInv'
  BY <1>8, Signs DEF PresignedGetURL, ContentTypes
<1>9. ASSUME NEW c \in Callers, PresignedPutURL(c) PROVE IInv'
  <2>1. call[c].contentType \in ContentTypes
    BY <1>9 DEF PresignedPutURL, More, IInv, Signing, CallType
  <2> QED
    BY <1>9, <2>1, Signs DEF PresignedPutURL
<1> QED
  BY <1>1, <1>2, <1>3, <1>4, <1>5, <1>6, <1>7, <1>8, <1>9, Fails, Finishes, Ticks DEF Next

LEMMA Invariant == Spec => []IInv
BY Initially, Preserved, PTL DEF Spec

-----------------------------------------------------------------------------
(* The types; a map holds each URL under its own key.                      *)
THEOREM StoreTypes == Spec => []TypeOK
<1>1. ASSUME IInv, NEW c \in Callers PROVE UrlMap(result[c].urls)
  <2>1. ASSUME NEW k \in DOMAIN result[c].urls
        PROVE  k \in Keys /\ result[c].urls[k] \in UrlType /\ result[c].urls[k].key = k
    BY <1>1 DEF IInv, Answered, Belongs, UrlType
  <2> QED
    BY <2>1 DEF UrlMap
<1>2. IInv => TypeOK
  BY <1>1 DEF IInv, TypeOK, Types, Kept, Signing, Answered
<1> QED
  BY <1>2, Invariant, PTL

(* PresignedGetURLs and PresignedPutURLs: URLs for all keys, or none.      *)
THEOREM BatchesAreWhole == Spec => []BatchWhole
<1>1. IInv => BatchWhole
  BY DEF IInv, Answered, BatchWhole
<1> QED
  BY <1>1, Invariant, PTL

(* PresignedPutURL: uploads have the type that was asked for.              *)
THEOREM UploadsHaveTheirType == Spec => []UploadsTyped
<1>1. IInv => UploadsTyped
  BY DEF IInv, Kept, UploadsTyped
<1> QED
  BY <1>1, Invariant, PTL

(* Nothing is uploaded later than the lifetime asked for allows.           *)
THEOREM UploadsComeInTime == Spec => []UploadsInTime
<1>1. IInv => UploadsInTime
  BY DEF IInv, Kept, UploadsInTime
<1> QED
  BY <1>1, Invariant, PTL
=============================================================================
