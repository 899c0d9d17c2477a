---------------------------- MODULE EndpointMedia ----------------------------
(***************************************************************************)
(* The node's library of pictures and sounds for the endpoints             *)
(* (src/hexevoice/endpoint/media.py) and their delivery to the SD cards.   *)
(*                                                                         *)
(* An upload, or the beep a request makes, runs in a thread: it loads the  *)
(* manifest, converts, writes the file through a temporary one and saves   *)
(* the manifest it loaded, without a lock.  Deleting runs on the event     *)
(* loop, between the steps of any upload.  An endpoint's transfers are one *)
(* queue; it downloads what the library serves by then and keeps it when   *)
(* size and checksum are the command's.                                    *)
(*                                                                         *)
(* A name stands for the endpoint's file: type, stem and extension.  A     *)
(* take is a content, its bytes and checksum.                              *)
(***************************************************************************)
EXTENDS Naturals, Sequences, FiniteSets

CONSTANTS MediaAssets,   \* asset ids, the beep's among them
          Beep,
          MediaFiles,    \* source files an operator has: type, stem, extension
          MediaTakes,    \* contents, 1 .. n
          Uploaders,     \* threads
          Panels,        \* endpoints with an SD card
          MaxTransfers   \* bound: deliveries of a behaviour

ASSUME MediaAssumption ==
  /\ Beep \in MediaAssets /\ MediaTakes \subseteq Nat \ {0} /\ 1 \in MediaTakes /\ MaxTransfers \in Nat
  /\ \A f \in MediaFiles : DOMAIN f = {"type", "stem", "ext"}

VARIABLES
  library,    \* manifest.json: by asset its endpoint file and checksum
  payloads,     \* the asset directories: contents by asset and file name
  temps,      \* the temporary files of uploads, likewise
  uploads,    \* by thread: where the upload is, what it is and the copy it loaded
  overlapped, \* history: two writers of the library were at work together
  cards,      \* by endpoint: the SD card
  queued,     \* by endpoint: transfers accepted, the first at work
  asked       \* history: the deliveries, in order

mediaVars == <<library, payloads, temps, uploads, overlapped, cards, queued, asked>>

Kinds == {"picture", "sprite", "sound"}

(* ALLOWED_EXTENSIONS and _prepare_endpoint_payload: a picture that is not *)
(* in the display's format is converted to it.                             *)
AllowedExtensions ==
  [picture |-> {"rgb565", "rgb888", "png", "jpg"},
   sprite  |-> {"rgb565", "rgb888", "alpha8", "alpha1", "png", "jpg", "json"},
   sound   |-> {"wav"}]

Converted == {"png", "jpg"}

(* Mutant: the file keeps its name.                                        *)
SourceName(f) == f

PreparedName(f) == IF f.ext \in Converted THEN [f EXCEPT !.ext = "rgb565"] ELSE f

BeepName == [type |-> "sound", stem |-> Beep, ext |-> "wav"]
AllNames == MediaFiles \cup {PreparedName(f) : f \in MediaFiles} \cup {BeepName}
Missing == 0
NoEntry == [name |-> BeepName, take |-> Missing]
Entries == {NoEntry} \cup [name : AllNames, take : MediaTakes]
NoUpload == [at |-> "idle"]

MediaInit ==
  /\ library = [a \in MediaAssets |-> NoEntry]
  /\ payloads = [a \in MediaAssets |-> [n \in AllNames |-> Missing]]
  /\ temps = [a \in MediaAssets |-> [n \in AllNames |-> Missing]]
  /\ uploads = [u \in Uploaders |-> NoUpload] /\ overlapped = FALSE
  /\ cards = [p \in Panels |-> [n \in AllNames |-> Missing]]
  /\ queued = [p \in Panels |-> <<>>] /\ asked = <<>>

-----------------------------------------------------------------------------
(* The library *)
Working == {u \in Uploaders : uploads[u].at # "idle"}

(* store_upload: an extension that is not allowed and an asset that exists *)
(* are refused, as is a content that does not fit its type (no action).    *)
LoadFor(u, asset, name, take) ==
  /\ uploads[u].at = "idle"
  /\ uploads' = [uploads EXCEPT ![u] =
       [at |-> "loaded", asset |-> asset, name |-> name, take |-> take, copy |-> library]]
  /\ overlapped' = (overlapped \/ Working # {})
  /\ UNCHANGED <<library, payloads, temps, cards, queued, asked>>

BeginUpload ==
  \E u \in Uploaders, a \in MediaAssets \ {Beep}, f \in MediaFiles, t \in MediaTakes, overwrite \in BOOLEAN :
    /\ f.ext \in AllowedExtensions[f.type]
    /\ library[a] = NoEntry \/ overwrite
    /\ LoadFor(u, a, PreparedName(f), t)

(* ensure_beep_sound: the beep is made again when its entry or its file is *)
(* missing; it has always the same content.                                *)
BeepTake == 1

EnsureBeepSound ==
  \E u \in Uploaders :
    /\ library[Beep] = NoEntry \/ payloads[Beep][library[Beep].name] = Missing
    /\ LoadFor(u, Beep, BeepName, BeepTake)

(* The temporary file has the asset's and the file's name: two uploads of  *)
(* one asset write the same one.                                           *)
WriteTemp ==
  \E u \in Uploaders :
    LET up == uploads[u] IN
    /\ up.at = "loaded"
    /\ temps' = [temps EXCEPT ![up.asset][up.name] = up.take]
    /\ uploads' = [uploads EXCEPT ![u].at = "written"]
    /\ UNCHANGED <<library, payloads, overlapped, cards, queued, asked>>

(* When another took the temporary file, the replacement fails and with it *)
(* the upload.                                                             *)
ReplaceFile ==
  \E u \in Uploaders :
    LET up == uploads[u] IN
    /\ up.at = "written"
    /\ IF temps[up.asset][up.name] = Missing
         THEN uploads' = [uploads EXCEPT ![u] = NoUpload] /\ UNCHANGED <<payloads, temps>>
         ELSE /\ payloads' = [payloads EXCEPT ![up.asset][up.name] = temps[up.asset][up.name]]
              /\ temps' = [temps EXCEPT ![up.asset][up.name] = Missing]
              /\ uploads' = [uploads EXCEPT ![u].at = "replaced"]
    /\ UNCHANGED <<library, overlapped, cards, queued, asked>>

Entry(up) == [name |-> up.name, take |-> up.take]

(* Mutant: the manifest is saved before the file is in place.              *)
SaveFirst ==
  \E u \in Uploaders :
    LET up == uploads[u] IN
    /\ up.at = "loaded"
    /\ library' = [up.copy EXCEPT ![up.asset] = Entry(up)]
    /\ uploads' = [uploads EXCEPT ![u] = NoUpload]
    /\ UNCHANGED <<payloads, temps, overlapped, cards, queued, asked>>

SaveManifest ==
  \E u \in Uploaders :
    LET up == uploads[u] IN
    /\ up.at = "replaced"
    /\ library' = [up.copy EXCEPT ![up.asset] = Entry(up)]
    /\ uploads' = [uploads EXCEPT ![u] = NoUpload]
    /\ UNCHANGED <<payloads, temps, overlapped, cards, queued, asked>>

(* delete_asset: the file goes, then the entry; an older file of the asset *)
(* under another name stays.                                               *)
DeleteMedia ==
  \E a \in MediaAssets :
    /\ library[a] # NoEntry
    /\ payloads' = [payloads EXCEPT ![a][library[a].name] = Missing]
    /\ library' = [library EXCEPT ![a] = NoEntry]
    /\ overlapped' = (overlapped \/ Working # {})
    /\ UNCHANGED <<temps, uploads, cards, queued, asked>>

-----------------------------------------------------------------------------
(* Delivery *)
QueueDepth == 2

(* endpoint_media_deliver: the command names the asset for the download,   *)
(* the file and the checksum.  It may be lost, and a full queue refuses it.*)
Deliver ==
  \E p \in Panels, a \in MediaAssets, overwrite \in BOOLEAN :
    /\ library[a] # NoEntry /\ Len(asked) < MaxTransfers
    /\ LET request == [asset |-> a, name |-> library[a].name, take |-> library[a].take,
                       overwrite |-> overwrite, to |-> p, got |-> Missing, at |-> "queued"]
       IN /\ asked' = Append(asked, request)
          /\ \/ /\ Len(queued[p]) <= QueueDepth
                /\ queued' = [queued EXCEPT ![p] = Append(@, request)]
             \/ UNCHANGED queued
    /\ UNCHANGED <<library, payloads, temps, uploads, overlapped, cards>>

AtHead(p) == queued[p][1]
Drop(p) == [queued EXCEPT ![p] = Tail(@)]
Advance(p, transfer) == [queued EXCEPT ![p][1] = transfer]

(* What the library serves under an asset's id: the file its entry names.  *)
Served(a) == IF library[a] = NoEntry THEN Missing ELSE payloads[a][library[a].name]

(* write_media_transfer: a file that exists is kept unless it may be       *)
(* overwritten; then the download, which may fail.                         *)
Download ==
  \E p \in Panels :
    /\ queued[p] # <<>> /\ AtHead(p).at = "queued"
    /\ IF ~ AtHead(p).overwrite /\ cards[p][AtHead(p).name] # Missing THEN queued' = Drop(p)
       ELSE \/ queued' = Advance(p, [AtHead(p) EXCEPT !.got = Served(AtHead(p).asset), !.at = "checking"])
            \/ queued' = Drop(p)
    /\ UNCHANGED <<library, payloads, temps, uploads, overlapped, cards, asked>>

(* Mutant: whatever was downloaded is kept.                                *)
VerifiedNothing(request) == request.got # Missing

Verified(request) == request.got = request.take

(* The checksum decides; an old file is removed before the new one has its *)
(* name.                                                                   *)
CheckTransfer ==
  \E p \in Panels :
    /\ queued[p] # <<>> /\ AtHead(p).at = "checking"
    /\ IF Verified(AtHead(p))
         THEN /\ queued' = Advance(p, [AtHead(p) EXCEPT !.at = "removed"])
              /\ cards' = [cards EXCEPT ![p][AtHead(p).name] = IF AtHead(p).overwrite THEN Missing ELSE @]
         ELSE queued' = Drop(p) /\ UNCHANGED cards
    /\ UNCHANGED <<library, payloads, temps, uploads, overlapped, asked>>

StoreTransfer ==
  \E p \in Panels :
    /\ queued[p] # <<>> /\ AtHead(p).at = "removed"
    /\ cards' = [cards EXCEPT ![p][AtHead(p).name] = AtHead(p).got]
    /\ queued' = Drop(p)
    /\ UNCHANGED <<library, payloads, temps, uploads, overlapped, asked>>

(* A reset of the endpoint forgets the queue and the transfer at work.     *)
PanelResets ==
  \E p \in Panels :
    /\ queued[p] # <<>> /\ queued' = [queued EXCEPT ![p] = <<>>]
    /\ UNCHANGED <<library, payloads, temps, uploads, overlapped, cards, asked>>

Reformat ==
  \E p \in Panels :
    /\ cards' = [cards EXCEPT ![p] = [n \in AllNames |-> Missing]]
    /\ UNCHANGED <<library, payloads, temps, uploads, overlapped, queued, asked>>

MediaNext ==
  \/ BeginUpload \/ EnsureBeepSound \/ WriteTemp \/ ReplaceFile \/ SaveManifest \/ DeleteMedia
  \/ Deliver \/ Download \/ CheckTransfer \/ StoreTransfer \/ PanelResets \/ Reformat

MediaSpec == MediaInit /\ [][MediaNext]_mediaVars

-----------------------------------------------------------------------------
MediaTypeOK ==
  /\ library \in [MediaAssets -> Entries]
  /\ payloads \in [MediaAssets -> [AllNames -> MediaTakes \cup {Missing}]]
  /\ cards \in [Panels -> [AllNames -> MediaTakes \cup {Missing}]]
  /\ \A p \in Panels : Len(queued[p]) <= QueueDepth + 1

(* As long as one writer of the library works at a time, every entry has   *)
(* its file, with the content the checksum was made of.  (Uploads run in   *)
(* threads, so writers may overlap; the README says what is lost then.)    *)
ManifestIsHonest ==
  ~ overlapped =>
    \A a \in MediaAssets :
      library[a] # NoEntry =>
        \/ payloads[a][library[a].name] = library[a].take
        \/ \E u \in Working : uploads[u].asset = a /\ uploads[u].at = "replaced"

(* An SD card holds, under every name, a content that was asked to go to   *)
(* this endpoint under this name, whatever is uploaded, deleted and        *)
(* delivered meanwhile; and only files in a format the endpoint reads.     *)
(* (docs/endpoint-sd-media-contract.md: "checksum matches".)               *)
CardsHoldWhatWasAsked ==
  \A p \in Panels, n \in AllNames :
    cards[p][n] # Missing =>
      /\ \E i \in DOMAIN asked : asked[i].to = p /\ asked[i].name = n /\ asked[i].take = cards[p][n]
      /\ n.ext \notin Converted
=============================================================================
