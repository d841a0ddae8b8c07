------------------------------ MODULE ImageServer ------------------------------
(***************************************************************************)
(* cpp/webp and cpp/avif: image converters that answer with the original   *)
(* image when the conversion fails.  bail() does that where the program    *)
(* notices the failure, on_error after an exception or a timeout; both     *)
(* take the image from globals the handler has set.  cpp/webp keeps its    *)
(* memory between requests ("ephemeral" false), cpp/avif does not.         *)
(*                                                                         *)
(* One request VM: VMs share nothing.  An image, a content type and a list *)
(* of headers are the number of the request they belong to; None is a type *)
(* that is a constant of the program, or pixels that nobody has written.   *)
(***************************************************************************)
EXTENDS Naturals

CONSTANT MaxRequests  \* bound: the requests of a behaviour

ASSUME ImageAssumption == MaxRequests \in Nat

VARIABLES
  converter, \* "webp" or "avif"
  step,      \* where the handler is
  id,        \* the number of the request being served
  method,    \* GET: the image is fetched; POST: it is the body
  img,       \* original_img (webp), current_img (avif)
  type,      \* original_content_type (webp)
  headers,   \* the list for the next fetch, static in webp's on_get
  sent,      \* the headers the last fetch was sent with
  picture,   \* the picture (webp) or image (avif) to encode
  output,    \* the images in the encoder's output
  answer     \* the answer to the request

memory == <<img, type, headers, picture, output>>
imageVars == <<converter, step, id, method, memory, sent, answer>>

None == 0
Ids == 1..MaxRequests
IdOrNone == Ids \cup {None}

NoAnswer == [kind |-> "none", by |-> "none", images |-> {}, type |-> None]

Answers == [kind : {"none", "converted", "fallback", "refused", "generic"},
            by : {"none", "handler", "bail", "on_error"},
            images : SUBSET IdOrNone, type : IdOrNone]

ImageTypeOK ==
  /\ converter \in {"webp", "avif"}
  /\ step \in {"idle", "parse", "fetch", "decode", "transform", "encode", "error", "done"}
  /\ id \in IdOrNone
  /\ method \in {"GET", "POST"}
  /\ img \in IdOrNone /\ type \in IdOrNone /\ headers \in IdOrNone /\ sent \in IdOrNone
  /\ picture \in IdOrNone
  /\ output \subseteq IdOrNone
  /\ answer \in Answers

ImageInit ==
  /\ converter \in {"webp", "avif"}
  /\ step = "idle" /\ id = None /\ method = "GET"
  /\ img = None /\ type = None /\ headers = None /\ sent = None
  /\ picture = None /\ output = {}
  /\ answer = NoAnswer

Go(from, to) == step = from /\ step' = to

-----------------------------------------------------------------------------
(* webp remembers the image and type of a POST before anything else.       *)
Accept(m) ==
  /\ id < MaxRequests
  /\ Go("idle", "parse")
  /\ id' = id + 1
  /\ method' = m
  /\ IF converter = "webp" /\ m = "POST"
       THEN img' = id + 1 /\ type' = id + 1
       ELSE UNCHANGED <<img, type>>
  /\ sent' = None
  /\ UNCHANGED <<converter, headers, picture, output, answer>>

(* The JSON argument is read: headers if it has any (GET), the options.    *)
Parse ==
  /\ step = "parse"
  /\ step' = IF method = "GET" THEN "fetch" ELSE "decode"
  /\ headers' \in IF method = "GET" THEN {headers, id} ELSE {headers}
  /\ img' = IF converter = "avif" /\ method = "POST" THEN id ELSE img
  /\ UNCHANGED <<converter, id, method, type, sent, picture, output, answer>>

(* A fetch, successful or not, uses the list of headers up.                *)
Fetch ==
  /\ step = "fetch"
  /\ sent' = headers
  /\ headers' = None
  /\ \/ /\ step' = "decode"
        /\ img' = id
        /\ UNCHANGED answer
     \/ /\ step' = "done"
        /\ answer' = [kind |-> "refused", by |-> "handler", images |-> {}, type |-> None]
        /\ UNCHANGED img
  /\ UNCHANGED <<converter, id, method, type, picture, output>>

(* produce_image: the picture of before is freed and a new one decoded.    *)
(* avif does not look whether the decoder succeeded: its planes may be as  *)
(* they were allocated.                                                    *)
Decode ==
  /\ Go("decode", "transform")
  /\ \/ picture' = id
     \/ converter = "avif" /\ picture' = None
  /\ UNCHANGED <<converter, id, method, img, type, headers, sent, output, answer>>

(* Variant: the output is not cleared.                                     *)
TransformOnly ==
  /\ Go("transform", "encode")
  /\ UNCHANGED <<converter, id, method, memory, sent, answer>>

(* The encoder is configured, the picture cropped and resized.             *)
Transform ==
  /\ Go("transform", "encode")
  /\ output' = {}
  /\ UNCHANGED <<converter, id, method, img, type, headers, sent, picture, answer>>

(* The encoder appends to the output, which is sent when it is complete;   *)
(* avif sends it without having looked whether the encoder succeeded.      *)
Encode ==
  /\ step = "encode"
  /\ \/ output' = output \cup {picture}
     \/ converter = "avif" /\ output' = output
  /\ \/ /\ step' = "done"
        /\ answer' = [kind |-> "converted", by |-> "handler", images |-> output', type |-> id]
     \/ UNCHANGED <<step, answer>>
  /\ UNCHANGED <<converter, id, method, img, type, headers, sent, picture>>

Fallback(by) == [kind |-> "fallback", by |-> by, images |-> {img}, type |-> type]

(* bail: produce_image notices a failure, at any of its steps.  While      *)
(* decoding, the old picture is gone and the new one not there yet.        *)
Bail ==
  /\ step \in {"decode", "transform", "encode"}
  /\ step' = "done"
  /\ answer' = Fallback("bail")
  /\ picture' = IF step = "decode" THEN None ELSE picture
  /\ UNCHANGED <<converter, id, method, img, type, headers, sent, output>>

(* An exception (the parser's are not caught) or the time limit.           *)
Raise ==
  /\ step \notin {"idle", "error", "done"}
  /\ step' = "error"
  /\ UNCHANGED <<converter, id, method, memory, sent, answer>>

(* on_error, or the generic answer if its time is too short as well.       *)
OnError ==
  /\ Go("error", "done")
  /\ answer' \in {Fallback("on_error"),
                  [kind |-> "generic", by |-> "none", images |-> {}, type |-> None]}
  /\ UNCHANGED <<converter, id, method, memory, sent>>

(* The VM is made ready for the next request: reset to what main left if   *)
(* it is ephemeral or its handler did not end by itself.                   *)
Ready ==
  /\ Go("done", "idle")
  /\ answer' = NoAnswer
  /\ IF converter = "avif" \/ answer.kind = "generic" \/ answer.by = "on_error"
       THEN img' = None /\ type' = None /\ headers' = None /\ picture' = None /\ output' = {}
       ELSE UNCHANGED memory
  /\ UNCHANGED <<converter, id, method, sent>>

ImageNext ==
  \/ \E m \in {"GET", "POST"} : Accept(m)
  \/ Parse \/ Fetch \/ Decode \/ Transform \/ Encode \/ Bail \/ Raise \/ OnError
  \/ Ready

ImageSpec == ImageInit /\ [][ImageNext]_imageVars

-----------------------------------------------------------------------------

(* avif's may be of no image at all: its decoder and encoder go unchecked. *)
ConvertedIsOwn ==
  answer.kind = "converted" =>
    IF converter = "webp" THEN answer.images = {id} ELSE answer.images \subseteq {id, None}

(* A POST to webp sets both globals before anything that can fail.  A GET  *)
(* to webp sets the image after it was fetched, so that bail has its own   *)
(* and on_error may have an earlier request's, and sets no type: both send *)
(* it as what the last POST was.  avif forgets: it has its own image or    *)
(* none, and its type is a constant.                                       *)
FallbackIsOwn ==
  answer.kind = "fallback" =>
    /\ answer.by = "bail" => answer.images = {id}
    /\ converter = "webp" /\ method = "POST" => answer.images = {id} /\ answer.type = id
    /\ converter = "avif" => answer.images \subseteq {id, None} /\ answer.type = None

HeadersAreOwn == sent \in {id, None}

(* What a converter answers with is the request's own, except for two      *)
(* things that a GET to webp may fall back to: the content type of an      *)
(* earlier POST, in bail and on_error, and in on_error an earlier image.   *)
(* So: a converted image is made of no other request's, whatever an        *)
(* encoding before it left half done in the static output and picture      *)
(* (produce_image); bail answers with the request's own image, and a POST  *)
(* to webp and any request to avif get no other image and type from        *)
(* on_error either; and a fetch is sent no headers of an earlier one,      *)
(* although webp's list is static (on_get).                                *)
AnswersAreOwn == ConvertedIsOwn /\ FallbackIsOwn /\ HeadersAreOwn

===============================================================================
