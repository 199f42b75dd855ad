----------------------------- MODULE ImageBudget -----------------------------
(***************************************************************************)
(* The images of a chat request: validateRequestImageModelSupport and      *)
(* prepareImageCompatibleRequest of image_compat.go (the same file in the  *)
(* plugin) refuse a request with images its model or its roles do not      *)
(* take, and otherwise load the images part by part under three limits: on *)
(* their number, on the size of one and on the size of all.                *)
(*                                                                         *)
(* An image is reduced to where it comes from, its size once decoded, the  *)
(* white space in its encoding, and whether its bytes are those of an      *)
(* image of the declared type.                                             *)
(***************************************************************************)
EXTENDS Integers, Sequences, SequencesExt

CONSTANTS
    Parts,          \* parts a message may have
    MessageLists,   \* possible values of the messages of a request
    MaxImages,      \* maximumImagesPerRequest
    MaxImageBytes,  \* maximumImageBytes
    MaxTotalBytes,  \* maximumTotalImageBytes
    Slack           \* white space allowed in an encoded image (1024)

\* A part is text, an image, or an image in a nested array, which counts as an
\* image in the checks of models and roles and is otherwise text.
Part == [kind : {"text", "image", "nested"}, source : {"inline", "remote"}, size : Nat,
         spaces : Nat, valid : BOOLEAN]

ASSUME LimitsAssumption ==
    /\ MaxImages \in Nat /\ MaxImageBytes \in Nat /\ MaxTotalBytes \in Nat
    /\ Slack \in Nat

ASSUME MessagesAssumption ==
    /\ Parts \subseteq Part
    /\ \A p \in Parts : p.valid => p.size > 0
    /\ MessageLists \subseteq Seq([system : BOOLEAN, parts : Seq(Parts)])

VARIABLES
    messages,       \* originalRequest.Messages
    support,        \* what lookupModelImageSupport says of the model
    stage,          \* where the preparation is
    totalCount,     \* totalImageCount and totalImageBytes: the images of the
    totalBytes,     \*   messages that are prepared
    part,           \* parts looked at in the current message
    images,         \* images and preparedImageBytes of prepareMessageContent
    preparedBytes,
    given,          \* message.Images of the messages that are prepared
    loads,          \* remote images fetched or begun to be
    reason          \* the error the request is refused with

imageVars == <<messages, support, stage, totalCount, totalBytes, part, images,
               preparedBytes, given, loads, reason>>
imageRequest == <<messages, support>>
totals == <<totalCount, totalBytes, given>>
current == <<part, images, preparedBytes>>

Reasons == {"none", "support", "system", "count", "total", "size", "invalid", "fetch"}

ImagesTypeOK ==
    /\ messages \in MessageLists
    /\ support \in {"yes", "no", "unknown"}
    /\ stage \in {"support", "roles", "parts", "fetch", "prepared", "refused"}
    /\ totalCount \in Nat /\ totalBytes \in Nat /\ preparedBytes \in Nat
    /\ part \in Nat /\ loads \in Nat
    /\ images \in Seq(Parts) /\ Len(images) <= MaxImages
    /\ given \in Seq(Seq(Parts))
    /\ reason \in Reasons

ImagesInit ==
    /\ messages \in MessageLists
    /\ support \in {"yes", "no", "unknown"}
    /\ stage = "support"
    /\ totalCount = 0 /\ totalBytes = 0
    /\ part = 0 /\ images = <<>> /\ preparedBytes = 0
    /\ given = <<>>
    /\ loads = 0
    /\ reason = "none"

-----------------------------------------------------------------------------
\* A nested image counts as an image for the checks of model and roles, and is then
\* rendered as text: it is none of the images of its message.
HasImage(m) == \E i \in 1 .. Len(m.parts) : m.parts[i].kind # "text"
ImageOf(p) == IF p.kind = "image" THEN <<p>> ELSE <<>>
ImagesIn(m) == FlattenSeq([k \in 1 .. Len(m.parts) |-> ImageOf(m.parts[k])])

Refuse(why) ==
    /\ stage' = "refused"
    /\ reason' = why
    /\ UNCHANGED <<imageRequest, totals, current, loads>>

\* A model the catalogue knows to be text-only; an unknown one is passed on.
CheckSupport ==
    /\ stage = "support"
    /\ LET any == \E i \in 1 .. Len(messages) : HasImage(messages[i])
       IN  \/ any /\ support = "no" /\ Refuse("support")
           \/ /\ ~(any /\ support = "no")
              /\ stage' = "roles"
              /\ UNCHANGED <<imageRequest, totals, current, loads, reason>>

CheckFirstRole ==
    /\ stage = "roles"
    /\ LET any == messages # <<>> /\ Head(messages).system /\ HasImage(Head(messages))
       IN  \/ any /\ Refuse("system")
           \/ /\ ~any
              /\ stage' = "parts"
              /\ UNCHANGED <<imageRequest, totals, current, loads, reason>>

\* All messages are looked at before the first image is loaded.
CheckRoles ==
    /\ stage = "roles"
    /\ LET any == \E i \in 1 .. Len(messages) : messages[i].system /\ HasImage(messages[i])
       IN  \/ any /\ Refuse("system")
           \/ /\ ~any
              /\ stage' = "parts"
              /\ UNCHANGED <<imageRequest, totals, current, loads, reason>>

InMessage == stage = "parts" /\ Len(given) < Len(messages)
Message == messages[Len(given) + 1]
InPart == InMessage /\ part < Len(Message.parts)
ThisPart == Message.parts[part + 1]

SkipText ==
    /\ InPart /\ ThisPart.kind # "image"
    /\ part' = part + 1
    /\ UNCHANGED <<imageRequest, stage, totals, images, preparedBytes, loads, reason>>

\* What is left for this image: remainingImageCount and remainingImageBytes
\* are those of the message, and the message's own images count as well.
CountLeft == MaxImages - totalCount > Len(images)

BytesLeft == MaxTotalBytes - totalBytes - preparedBytes

\* remainingBytesForImage may be less than the limit of one image.
ImageLimit == IF BytesLeft < MaxImageBytes THEN BytesLeft ELSE MaxImageBytes

OutOfCount ==
    /\ InPart /\ ThisPart.kind = "image"
    /\ ~CountLeft
    /\ Refuse("count")

OutOfBytes ==
    /\ InPart /\ ThisPart.kind = "image"
    /\ CountLeft /\ BytesLeft <= 0
    /\ Refuse("total")

MayLoad == InPart /\ ThisPart.kind = "image" /\ CountLeft /\ BytesLeft > 0

\* base64.StdEncoding.EncodedLen; the white space is removed after a first
\* look at the length.
EncodedLen(n) == 4 * ((n + 2) \div 3)
EncodedFits(p) ==
    /\ EncodedLen(p.size) + p.spaces <= EncodedLen(ImageLimit) + Slack
    /\ EncodedLen(p.size) <= EncodedLen(ImageLimit)

\* decodeBase64Image: the size is compared again once the bytes are decoded,
\* as many sizes have one encoded length.
EncodedSizeOnly(p) == EncodedFits(p)
Fits(p) == EncodedFits(p) /\ p.size <= ImageLimit

Take(p) ==
    /\ images' = Append(images, p)
    /\ preparedBytes' = preparedBytes + p.size
    /\ part' = part + 1
    /\ stage' = "parts"
    /\ UNCHANGED <<imageRequest, totals, reason>>

TakeInline ==
    /\ MayLoad /\ ThisPart.source = "inline"
    /\ \/ Fits(ThisPart) /\ ThisPart.valid /\ Take(ThisPart) /\ UNCHANGED loads
       \/ ~Fits(ThisPart) /\ Refuse("size")
       \/ ~ThisPart.valid /\ Refuse("invalid")

\* fetchRemoteImage sends its request, with a deadline of 15 seconds.
StartFetch ==
    /\ MayLoad /\ ThisPart.source = "remote"
    /\ stage' = "fetch"
    /\ loads' = loads + 1
    /\ UNCHANGED <<imageRequest, totals, current, reason>>

\* At most one byte more than the limit is read of the answer.
FetchEnds ==
    /\ stage = "fetch"
    /\ LET p == Message.parts[part + 1]
       IN  \/ p.size <= ImageLimit /\ p.valid /\ Take(p) /\ UNCHANGED loads
           \/ p.size > ImageLimit /\ Refuse("size")
           \/ ~p.valid /\ Refuse("invalid")

\* No public address, no connection, a redirect or a status refused, a read
\* error, or the deadline.
FetchFails ==
    /\ stage = "fetch"
    /\ Refuse("fetch")

ForgetsTotals ==
    /\ totalCount' = Len(images)
    /\ totalBytes' = preparedBytes

AddTotals ==
    /\ totalCount' = totalCount + Len(images)
    /\ totalBytes' = totalBytes + preparedBytes

\* The limits are looked at once more when a message is prepared.
OverLimits ==
    \/ totalCount + Len(images) > MaxImages
    \/ totalBytes + preparedBytes > MaxTotalBytes

KeepImages ==
    /\ AddTotals
    /\ given' = Append(given, images)
    /\ part' = 0 /\ images' = <<>> /\ preparedBytes' = 0
    /\ UNCHANGED <<imageRequest, stage, loads, reason>>

EndMessage ==
    /\ InMessage /\ part = Len(Message.parts)
    /\ IF OverLimits THEN Refuse("total") ELSE KeepImages

EndImages ==
    /\ stage = "parts" /\ Len(given) = Len(messages)
    /\ stage' = "prepared"
    /\ UNCHANGED <<imageRequest, totals, current, loads, reason>>

ImageStep ==
    \/ CheckSupport
    \/ CheckRoles
    \/ SkipText
    \/ OutOfCount
    \/ OutOfBytes
    \/ TakeInline
    \/ StartFetch
    \/ FetchEnds
    \/ FetchFails
    \/ EndMessage
    \/ EndImages

ImagesSpec == ImagesInit /\ [][ImageStep]_imageVars

-----------------------------------------------------------------------------
\* "Each image is limited to 10 MiB, each request to 20 images and 20 MiB"
\* (README.md), whatever part of a request has been prepared: the second look
\* at the limits never refuses anything.
WithinLimits ==
    /\ totalCount + Len(images) <= MaxImages
    /\ totalBytes + preparedBytes <= MaxTotalBytes
    /\ \A i \in 1 .. Len(images) : images[i].size <= MaxImageBytes

SizeOf(ps) == FoldLeft(LAMBDA sum, p : sum + p.size, 0, ps)

\* What a request may have, read off the whole of it.
Allowed ==
    LET all == FlattenSeq([i \in 1 .. Len(messages) |-> ImagesIn(messages[i])])
    IN  /\ \A i \in 1 .. Len(messages) :
               HasImage(messages[i]) => support # "no" /\ ~messages[i].system
        /\ Len(all) <= MaxImages
        /\ SizeOf(all) <= MaxTotalBytes
        /\ \A i \in 1 .. Len(all) : all[i].valid /\ all[i].size <= MaxImageBytes

Spaced == \E i \in 1 .. Len(messages) :
              \E j \in 1 .. Len(messages[i].parts) : messages[i].parts[j].spaces > Slack

\* The limits alone decide, in whatever order parts come and wherever one limit
\* is met: a request is prepared with all its images in their messages, or it is
\* not allowed, an image could not be fetched, or an encoding has too much white
\* space.  That says nothing of an image nested in an array: it is no image to
\* ImagesIn, but rendered as text and so left out, although README.md promises
\* an error "instead of silently dropping" image input.
LimitsDecide ==
    /\ stage = "prepared" =>
           Allowed /\ given = [i \in 1 .. Len(messages) |-> ImagesIn(messages[i])]
    /\ stage = "refused" /\ reason # "fetch" => ~Allowed \/ Spaced

\* No remote image is fetched beyond the limit on their number, nor for a
\* request that is refused for its model or its roles.
LoadsBounded ==
    /\ loads <= MaxImages
    /\ loads > 0 => \A i \in 1 .. Len(messages) :
                        HasImage(messages[i]) => support # "no" /\ ~messages[i].system
=============================================================================
