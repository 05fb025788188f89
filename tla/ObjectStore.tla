----------------------------- MODULE ObjectStore -----------------------------
(***************************************************************************)
(* storage.S3 over one bucket: objects put, read and deleted by the        *)
(* program, and URLs it signs, with which clients read and upload without  *)
(* it until the URL expires.  A batch is signed key by key while the clock *)
(* goes on.  What S3 itself does (objects, the check of a signature, the   *)
(* SDK's reading of a lifetime) is modelled from how s3.go uses it.        *)
(***************************************************************************)
EXTENDS Integers, SequencesExt

CONSTANTS
  Callers,      \* goroutines of the program that use the store
  Keys,         \* keys of objects
  BadKey,       \* a key the SDK refuses
  Batches,      \* the sequences of keys asked for
  Overrides,    \* values of ttlOverride
  TTLs,         \* values of s3.presign_ttl
  DefaultTTL,   \* the SDK's lifetime when asked for none
  MaxTime,      \* the clock stops here
  None          \* no object, no call, no URL

ContentTypes == {"", "image", "other"}

ASSUME StoreAssumption ==
  /\ TTLs \subseteq Int /\ Overrides \subseteq Int /\ DefaultTTL \in Nat \ {0} /\ MaxTime \in Nat
  /\ Batches \subseteq Seq(Keys \cup {BadKey})

VARIABLES
  now,         \* the clock S3 and the program share
  presignTTL,  \* the configured lifetime
  objects,     \* what lies under each key: its type, and the URL it was uploaded with
  call,        \* of a caller: the batch it is signing, or None
  urls,        \* the map of the batch so far
  result       \* of a caller's last call: "ok" or "error", the URLs it got, what it asked for and when it got them

vars == <<now, presignTTL, objects, call, urls, result>>

Idle(c) == call[c] = None
NoUrls == [k \in {} |-> None]
Stored(type, via) == [type |-> type, via |-> via]
(* The type S3 gives an object that comes without one.                     *)
TypeOr(contentType) == IF contentType = "" THEN "other" ELSE contentType

NoResult == [answer |-> "none", urls |-> NoUrls, asked |-> None, at |-> 0]

Init ==
  /\ now = 0 /\ presignTTL \in TTLs
  /\ objects = [k \in Keys |-> None]
  /\ call = [c \in Callers |-> None] /\ urls = [c \in Callers |-> NoUrls]
  /\ result = [c \in Callers |-> NoResult]

Return(c, answer, got) ==
  result' = [result EXCEPT ![c] = [answer |-> answer, urls |-> got, asked |-> call[c], at |-> now]]

-----------------------------------------------------------------------------
(* One call to S3 each.  A call that fails may yet have been carried out.  *)

Put(c, k, contentType) ==
  /\ Idle(c)
  /\ \/ objects' = [objects EXCEPT ![k] = Stored(TypeOr(contentType), None)]
        /\ \E answer \in {"ok", "error"} : Return(c, answer, NoUrls)
     \/ UNCHANGED objects /\ Return(c, "error", NoUrls)
  /\ UNCHANGED <<now, presignTTL, call, urls>>

Get(c, k) ==
  /\ Idle(c)
  /\ \/ objects[k] # None /\ Return(c, "ok", NoUrls)
     \/ Return(c, "error", NoUrls)
  /\ UNCHANGED <<now, presignTTL, objects, call, urls>>

(* Deleting a missing key is no error.                                     *)
Delete(c, k) ==
  /\ Idle(c)
  /\ \/ objects' = [objects EXCEPT ![k] = None]
        /\ \E answer \in {"ok", "error"} : Return(c, answer, NoUrls)
     \/ UNCHANGED objects /\ Return(c, "error", NoUrls)
  /\ UNCHANGED <<now, presignTTL, call, urls>>

-----------------------------------------------------------------------------
(* Signing.                                                                *)

(* The override counts when it is positive.                                *)
\* Mutation of Ttl: an override of zero counts too.
TtlFromZero(override) == IF override < 0 THEN presignTTL ELSE override
Ttl(override) == IF override =< 0 THEN presignTTL ELSE override

(* The SDK takes no lifetime for its default, and refuses a negative one.  *)
Expires(ttl) == IF ttl = 0 THEN DefaultTTL ELSE ttl
Refused(key, ttl) == key = BadKey \/ ttl < 0
Url(method, key, contentType, ttl) ==
  [method |-> method, key |-> key, contentType |-> contentType, until |-> now + Expires(ttl)]

(* A call for a batch, or for the one URL of PresignedGetURL and           *)
(* PresignedPutURL.                                                        *)
Presign(c, method, keys, contentType, override) ==
  /\ Idle(c)
  /\ call' = [call EXCEPT ![c] = [method |-> method, keys |-> keys, contentType |-> contentType,
                                  override |-> override, next |-> 1]]
  /\ urls' = [urls EXCEPT ![c] = NoUrls]
  /\ result' = [result EXCEPT ![c] = NoResult]
  /\ UNCHANGED <<now, presignTTL, objects>>
PresignedGetURLs(c, keys, override) == Presign(c, "GET", keys, "", override)
PresignedPutURLs(c, keys, contentType, override) == Presign(c, "PUT", keys, contentType, override)

Key(c) == call[c].keys[call[c].next]
More(c) == ~Idle(c) /\ call[c].next =< Len(call[c].keys)

(* A URL joins the map; a key that comes twice has one.                    *)
Sign(c, url) ==
  /\ urls' = [urls EXCEPT ![c] = [k \in DOMAIN @ \cup {Key(c)} |-> IF k = Key(c) THEN url ELSE @[k]]]
  /\ call' = [call EXCEPT ![c].next = @ + 1]
  /\ UNCHANGED <<now, presignTTL, objects, result>>

\* Mutation of PresignedGetURL: the SDK's error is not looked at.
PresignedGetURLUnchecked(c) ==
  /\ More(c) /\ call[c].method = "GET"
  /\ Sign(c, Url("GET", Key(c), "", Ttl(call[c].override)))
PresignedGetURL(c) ==
  /\ More(c) /\ call[c].method = "GET" /\ ~Refused(Key(c), Ttl(call[c].override))
  /\ Sign(c, Url("GET", Key(c), "", Ttl(call[c].override)))

(* The content type, if there is one, becomes part of the signature.       *)
\* Mutation of PresignedPutURL: it is left out of the input.
PresignedPutURLUntyped(c) ==
  /\ More(c) /\ call[c].method = "PUT" /\ ~Refused(Key(c), Ttl(call[c].override))
  /\ Sign(c, Url("PUT", Key(c), "", Ttl(call[c].override)))
PresignedPutURL(c) ==
  /\ More(c) /\ call[c].method = "PUT" /\ ~Refused(Key(c), Ttl(call[c].override))
  /\ Sign(c, Url("PUT", Key(c), call[c].contentType, Ttl(call[c].override)))

(* The first bad key ends the batch.                                       *)
\* Mutation of FailFast: the bad key is passed over.
SkipBad(c) ==
  /\ More(c) /\ Refused(Key(c), Ttl(call[c].override))
  /\ call' = [call EXCEPT ![c].next = @ + 1]
  /\ UNCHANGED <<now, presignTTL, objects, urls, result>>
FailFast(c) ==
  /\ More(c) /\ Refused(Key(c), Ttl(call[c].override))
  /\ Return(c, "error", NoUrls)
  /\ call' = [call EXCEPT ![c] = None]
  /\ UNCHANGED <<now, presignTTL, objects, urls>>

Finish(c) ==
  /\ ~Idle(c) /\ ~More(c)
  /\ Return(c, "ok", urls[c])
  /\ call' = [call EXCEPT ![c] = None]
  /\ UNCHANGED <<now, presignTTL, objects, urls>>

-----------------------------------------------------------------------------
(* The clients.                                                            *)

(* S3 takes an upload before the URL expires, with the type that was       *)
(* signed if one was.                                                      *)
Upload(c, k, sent) ==
  /\ k \in DOMAIN result[c].urls
  /\ LET url == result[c].urls[k] IN
       /\ url.method = "PUT" /\ now =< url.until /\ url.contentType \in {"", sent}
       /\ objects' = [objects EXCEPT ![k] =
                        Stored(TypeOr(sent), [contentType |-> result[c].asked.contentType,
                          override |-> result[c].asked.override, after |-> now - result[c].at])]
  /\ UNCHANGED <<now, presignTTL, call, urls, result>>

Tick ==
  /\ now < MaxTime /\ now' = now + 1
  /\ UNCHANGED <<presignTTL, objects, call, urls, result>>

Next ==
  \/ \E c \in Callers :
       \/ \E k \in Keys : \/ Get(c, k) \/ Delete(c, k)
                          \/ \E type \in ContentTypes : Put(c, k, type) \/ Upload(c, k, type)
       \/ \E keys \in Batches, override \in Overrides :
            \/ PresignedGetURLs(c, keys, override)
            \/ \E type \in ContentTypes : PresignedPutURLs(c, keys, type, override)
       \/ PresignedGetURL(c) \/ PresignedPutURL(c) \/ FailFast(c) \/ Finish(c)
  \/ Tick

Spec == Init /\ [][Next]_vars

-----------------------------------------------------------------------------
UrlType == [method : {"GET", "PUT"}, key : Keys, contentType : ContentTypes, until : Nat]
CallType == [method : {"GET", "PUT"}, keys : Batches, contentType : ContentTypes,
             override : Overrides, next : Nat \ {0}]
UrlMap(f) == DOMAIN f \subseteq Keys /\ \A k \in DOMAIN f : f[k] \in UrlType /\ f[k].key = k

(* The types; a map holds each URL under its own key.                      *)
TypeOK ==
  /\ now \in 0 .. MaxTime /\ presignTTL \in TTLs
  /\ \A k \in Keys : objects[k] # None => objects[k].type \in ContentTypes \ {""}
  /\ \A c \in Callers :
       /\ Idle(c) \/ call[c] \in CallType
       /\ UrlMap(urls[c]) /\ UrlMap(result[c].urls)
       /\ result[c].answer \in {"none", "ok", "error"}

(* A batch is answered whole or not at all: URLs for exactly the keys it   *)
(* named, or an error and none.                                            *)
BatchWhole ==
  \A c \in Callers : result[c].asked # None =>
    DOMAIN result[c].urls = IF result[c].answer = "ok" THEN ToSet(result[c].asked.keys) ELSE {}

(* What a client uploaded through a URL is of the type the program asked   *)
(* for when it had the URL signed.                                         *)
UploadsTyped ==
  \A k \in Keys : objects[k] # None /\ objects[k].via # None =>
    objects[k].via.contentType \in {"", objects[k].type}

(* And it was uploaded within the lifetime the program asked for, or the   *)
(* configured one, counted from when it got the URL at the latest.         *)
Lifetime(override) == IF override > 0 THEN override ELSE Expires(presignTTL)
UploadsInTime ==
  \A k \in Keys : objects[k] # None /\ objects[k].via # None =>
    objects[k].via.after =< Lifetime(objects[k].via.override)
=============================================================================
