------------------------------- MODULE Media --------------------------------
(***************************************************************************)
(* Pictures of a message: how an attachment is resolved to a file          *)
(* (agent/media/resolver.py, cache.py), the parts it becomes in a request  *)
(* and in the history, and what is stored with the turn                    *)
(* (core/session_runner.py).                                               *)
(*                                                                         *)
(* A picture knows where it is (a "path", a "url", or only the "id" the    *)
(* platform gave it), whether a text describes it, whether it is larger    *)
(* than the model takes and whether its type is unsupported ("odd"). Its   *)
(* file on this machine is none, fresh, or expired (cache_ttl_seconds).    *)
(***************************************************************************)
EXTENDS Integers, SequencesExt

CONSTANTS
  MaxImages,       \* ModelCapabilities.max_image_count; 0 is no limit
  FallbackImages,  \* pictures described to a model without image_input (4 in the code)
  FallbackMode,    \* image_fallback_mode
  MediaPolicy      \* media_context_policy

ASSUME MediaAssumption ==
  /\ {MaxImages, FallbackImages} \subseteq Nat
  /\ FallbackMode \in {"off", "auto", "tool"}
  /\ MediaPolicy \in {"cache_aware", "description_only", "native_recent"}

Files == {"none", "fresh", "expired"}
Places == {"path", "url", "id"}
Parts == {"text", "image", "description"}

Attachments == [place : Places, alt : BOOLEAN, large : BOOLEAN, odd : BOOLEAN]
Pictures(ids) == [id : ids, place : Places, alt : BOOLEAN, large : BOOLEAN, odd : BOOLEAN]

ImageParts(parts) == {i \in DOMAIN parts : parts[i] = "image"}
FirstN(s, n) == SubSeq(s, 1, IF Len(s) < n THEN Len(s) ELSE n)
LastN(s, n) == IF Len(s) <= n THEN s ELSE SubSeq(s, Len(s) - n + 1, Len(s))

(*------------------------------- resolution ------------------------------*)

(* The channel fetches a picture it knows only by its id.                  *)
Materialized(a, up) == IF a.place = "id" /\ up THEN [a EXCEPT !.place = "path"] ELSE a
FileOf(a, file, up) == IF a.place = "id" /\ up THEN "fresh" ELSE file

Resolved(native, file) == [native |-> native, file |-> file]

(* The age of a file given by its path is not looked at.                   *)
ResolvePath(a, file) == Resolved(file # "none" /\ ~ a.odd, file)

(* MediaCache.get drops an expired entry; a file of the wrong type is      *)
(* dropped or not stored.                                                  *)
ResolveUrl(a, file, up) ==
  LET there == file = "fresh" \/ up
  IN Resolved(there /\ ~ a.odd, IF there /\ ~ a.odd THEN "fresh" ELSE "none")

Resolve(a, file, up) ==
  LET b == Materialized(a, up)
      f == FileOf(a, file, up)
  IN CASE b.place = "path" -> ResolvePath(b, f)
       [] b.place = "url"  -> ResolveUrl(b, f, up)
       [] b.place = "id"   -> Resolved(FALSE, f)

Each(atts, parts(_)) == FlattenSeq([i \in DOMAIN atts |-> parts(atts[i])])

(* The files once a set of pictures has been resolved.                     *)
AfterResolving(pictures, disk, up) ==
  [id \in DOMAIN disk |->
     IF \E a \in pictures : a.id = id
     THEN Resolve(CHOOSE a \in pictures : a.id = id, disk[id], up).file
     ELSE disk[id]]

(*-------------------------- the turn's own pictures ----------------------*)

Described(a) == IF a.alt THEN <<"description">> ELSE <<>>

VisionParts(atts, disk, up) ==
  LET part(a) ==
        IF a.odd THEN <<>>
        ELSE IF Resolve(a, disk[a.id], up).native
             THEN IF a.large THEN Described(a) ELSE <<"image">>
        ELSE IF a.place = "url" THEN <<"image">>
        ELSE Described(a)
  IN <<"text">> \o Each(IF MaxImages > 0 THEN FirstN(atts, MaxImages) ELSE atts, part)

(* Every picture gets a text: from the fallback model, from the message,   *)
(* or its id.                                                              *)
AutoDescribed(atts) == [i \in DOMAIN FirstN(atts, FallbackImages) |-> "description"]

FallbackParts(atts) ==
  IF FallbackMode = "off" THEN <<>> ELSE <<"text">> \o AutoDescribed(atts)

UserParts(atts, vision, disk, up) ==
  IF vision THEN VisionParts(atts, disk, up)
  ELSE IF atts = <<>> THEN <<>> ELSE FallbackParts(atts)

(*---------------------- pictures stored with a turn ----------------------*)

(* The url is not stored; the file, when there is one, takes its place.    *)
Persisted(a, disk, up) ==
  [a EXCEPT !.place =
     IF a.place = "path" \/ Resolve(a, disk[a.id], up).native THEN "path" ELSE "id"]

Reconstructed(atts, disk, up) ==
  LET part(a) ==
        IF ~ a.alt /\ a.place # "id" /\ Resolve(a, disk[a.id], up).native
        THEN <<"image">> ELSE <<"description">>
  IN Each(atts, part)

Degraded(parts) == [i \in DOMAIN parts |-> IF parts[i] = "image" THEN "description" ELSE parts[i]]

(* Mutant of PolicyFor: the model's capabilities are not asked.            *)
ConfiguredPolicy(blind) == MediaPolicy

(* blind: the model is known not to take pictures.                         *)
PolicyFor(blind) == IF blind THEN "description_only" ELSE MediaPolicy

(* The first message whose pictures stay as they are.                      *)
NativeFrom(messages, policy) ==
  LET users == SelectSeq([i \in DOMAIN messages |-> i], LAMBDA i : messages[i].role = "user")
  IN IF policy = "description_only" THEN Len(messages) + 1
     ELSE IF users = <<>> THEN 1
     ELSE IF policy = "cache_aware" THEN LastN(users, 2)[1] ELSE Last(users)

ApplyMediaPolicy(messages, blind) ==
  LET from == NativeFrom(messages, PolicyFor(blind))
  IN [i \in DOMAIN messages |->
        IF i < from THEN [messages[i] EXCEPT !.parts = Degraded(@)] ELSE messages[i]]
============================================================================
