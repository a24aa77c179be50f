----------------------------- MODULE OtaUpdater -----------------------------
(***************************************************************************)
(* The chunked firmware update (ota_updater.cpp, run_ota_if_due() of       *)
(* mqtt_sender.cpp) against the staging tool (tools/ota_push.py).          *)
(*                                                                         *)
(* Four actors share the state: the staging tool and the person at Home    *)
(* Assistant change what the broker retains; the publish task runs         *)
(* download sessions (`otaPc`); esp-mqtt's task stores the chunks that     *)
(* arrive (`handler`); and the link may drop the connection.               *)
(*                                                                         *)
(* An image is a name with a size; its bytes are pairs of the name and a   *)
(* position, so two images agree on no byte and a hash matches exactly     *)
(* when the bytes do.  An image's name also stands for its version.        *)
(***************************************************************************)
EXTENDS Integers, Sequences, FiniteSets

CONSTANTS
  Images,      \* firmware images
  Size,        \* their sizes in bytes
  Factory,     \* the image a device boots first
  ChunkSizes,  \* chunk sizes the tool is run with
  MaxChunk,    \* OTA_MAX_CHUNK_SIZE
  SlotSize,    \* size of an app partition
  MaxStagings, \* bound: runs of the staging tool
  OtaEnv       \* what the environment may do: a subset of OtaEvents

(* "loss"    a connect may fail and a connection may drop                  *)
(* "slow"    a wait may time out although a chunk is on its way            *)
(* "flash"   esp_ota_*() and the hash may fail                             *)
(* "battery" the battery may be low                                        *)
(* "quit"    the staging tool may stop halfway                             *)
(* "clear"   the tool may be run with --clear                              *)
(* "click"   an install may be requested at Home Assistant                 *)
(* "idle"    value-less cycles may run while an update is due              *)
(* "crash"   the chip may restart at any time                              *)
OtaEvents ==
  {"loss", "slow", "flash", "battery", "quit", "clear", "click", "idle", "crash"}

ASSUME OtaAssumption ==
  /\ Factory \in Images
  /\ Size \in [Images -> Nat \ {0}]
  /\ ChunkSizes \subseteq Nat \ {0}
  /\ MaxChunk \in Nat \ {0}
  /\ SlotSize \in Nat
  /\ OtaEnv \subseteq OtaEvents

VARIABLES
  \* the broker and the staging tool
  retManifest, retInstall, retChunk,  \* retained messages
  mail,        \* manifest and install messages queued for the device
  pushPc, push, stagings,
  \* the state ota_updater.cpp keeps
  running, s_manifest, s_install_requested, s_no_progress_attempts,
  s_partial_valid, s_partial_manifest, s_next_chunk,
  s_ota_handle, \* a handle from esp_ota_begin() is open
  hashing,     \* the hash operation is usable
  flash,       \* the bytes written to the update partition
  hashed,      \* the bytes hashed
  s_session_active, s_conn_lost, bits,
  \* the publish task, its connection and esp-mqtt's task
  otaPc, ses, battery, connUp, subs, inbox, handler,
  \* history
  approved,    \* the images that were staged when an install was requested
  booted       \* what the boot partition was last set to

brokerVars == <<retManifest, retInstall, retChunk, mail, approved>>
pushVars == <<pushPc, push, stagings>>
partialVars == <<s_partial_valid, s_partial_manifest, s_next_chunk,
                 s_ota_handle, hashing, flash, hashed>>
staged == <<running, s_manifest, s_install_requested>>
session == <<otaPc, ses, battery>>
connVars == <<connUp, subs, inbox, handler>>
signals == <<s_session_active, s_conn_lost, bits>>
otaVars == <<brokerVars, pushVars, partialVars, staged, session, connVars,
             signals, s_no_progress_attempts, booted>>

-----------------------------------------------------------------------------
(* Images, manifests and chunks                                            *)

MinOf(a, b) == IF a <= b THEN a ELSE b

Bytes(image, from, len) == [k \in 1..len |-> <<image, from + k - 1>>]
WholeImage(image) == Bytes(image, 0, Size[image])

Manifests == [image : Images, chunk_size : ChunkSizes, force : BOOLEAN]
NoManifest == [image |-> Factory, chunk_size |-> 0, force |-> FALSE]

TotalChunks(m) == (Size[m.image] + m.chunk_size - 1) \div m.chunk_size
ChunkLen(m, n) == MinOf(m.chunk_size, Size[m.image] - n * m.chunk_size)
Chunk(m, n) == Bytes(m.image, n * m.chunk_size, ChunkLen(m, n))
sameImage(m, o) == m.image = o.image /\ m.chunk_size = o.chunk_size

(* Every index under which a chunk can be retained.                        *)
ChunkTopics == UNION {0..(TotalChunks(m) - 1) : m \in Manifests}

OtaMaxNoProgressAttempts == 3
SubscribePipeline == 2

NoChunk == [n |-> -1, bytes |-> <<>>]

ota_update_due ==
  /\ s_install_requested
  /\ s_no_progress_attempts < OtaMaxNoProgressAttempts
  /\ s_manifest # NoManifest
  /\ s_manifest.image # running

-----------------------------------------------------------------------------
(* ota_push.py: one retained publish per step, in the script's order.      *)

(* A chunk topic the device has subscribed to is also delivered live.      *)
RetainChunk(n, payload) ==
  /\ retChunk' = [retChunk EXCEPT ![n] = payload]
  /\ inbox' = IF n \in subs THEN Append(inbox, [n |-> n, bytes |-> payload])
              ELSE inbox
  /\ UNCHANGED <<retManifest, retInstall, mail, approved, connUp, subs, handler>>

RetainManifest(m) ==
  /\ retManifest' = m
  /\ mail' = Append(mail, [topic |-> "manifest", m |-> m])
  /\ UNCHANGED <<retInstall, retChunk, approved, connVars>>

RetainInstall(on) ==
  /\ retInstall' = on
  /\ mail' = Append(mail, [topic |-> "install", on |-> on])
  /\ approved' = IF on THEN approved \cup {retManifest.image} ELSE approved
  /\ UNCHANGED <<retManifest, retChunk, connVars>>

device == <<partialVars, staged, session, signals, s_no_progress_attempts, booted>>

(* What clear_stale() finds retained and does not keep.                    *)
Stale(stage, m) ==
  [chunks |-> {n \in ChunkTopics : /\ retChunk[n] # <<>>
                                   /\ stage => n >= TotalChunks(m)},
   install |-> retInstall /\ ~stage,
   manifest |-> retManifest # NoManifest]

PushStart ==
  /\ pushPc = "idle"
  /\ stagings < MaxStagings
  /\ stagings' = stagings + 1
  /\ pushPc' = "clear"
  /\ \/ \E m \in Manifests, install \in BOOLEAN :
          /\ m.image # Factory
          /\ push' = [stage |-> TRUE, m |-> m, install |-> install, next |-> 0,
                      stale |-> Stale(TRUE, m)]
     \/ /\ "clear" \in OtaEnv
        /\ push' = [stage |-> FALSE, m |-> NoManifest, install |-> FALSE,
                    next |-> 0, stale |-> Stale(FALSE, NoManifest)]
  /\ UNCHANGED <<brokerVars, connVars, device>>

(* clear_stale() deletes in the sorted order of the topics: the image      *)
(* chunks, the install flag, the manifest.                                 *)
PushClearChunk ==
  /\ pushPc = "clear"
  /\ \E n \in push.stale.chunks :
       /\ \A k \in push.stale.chunks : n <= k
       /\ RetainChunk(n, <<>>)
       /\ push' = [push EXCEPT !.stale.chunks = @ \ {n}]
  /\ UNCHANGED <<pushPc, stagings, device>>

PushClearInstall ==
  /\ pushPc = "clear"
  /\ push.stale.chunks = {} /\ push.stale.install
  /\ RetainInstall(FALSE)
  /\ push' = [push EXCEPT !.stale.install = FALSE]
  /\ UNCHANGED <<pushPc, stagings, device>>

PushClearManifest ==
  /\ pushPc = "clear"
  /\ push.stale.chunks = {} /\ ~push.stale.install
  /\ pushPc' = IF push.stage THEN "chunks" ELSE "idle"
  /\ \/ push.stale.manifest /\ RetainManifest(NoManifest)
     \/ ~push.stale.manifest /\ UNCHANGED <<brokerVars, connVars>>
  /\ UNCHANGED <<push, stagings, device>>

PushChunk ==
  /\ pushPc = "chunks"
  /\ push.next < TotalChunks(push.m)
  /\ RetainChunk(push.next, Chunk(push.m, push.next))
  /\ push' = [push EXCEPT !.next = @ + 1]
  /\ UNCHANGED <<pushPc, stagings, device>>

PushManifest ==
  /\ pushPc = "chunks"
  /\ push.next = TotalChunks(push.m)
  /\ RetainManifest(push.m)
  /\ pushPc' = IF push.install THEN "install" ELSE "idle"
  /\ UNCHANGED <<push, stagings, device>>

PushInstall ==
  /\ pushPc = "install"
  /\ RetainInstall(TRUE)
  /\ pushPc' = "idle"
  /\ UNCHANGED <<push, stagings, device>>

PushQuits ==
  /\ "quit" \in OtaEnv
  /\ pushPc # "idle"
  /\ pushPc' = "idle"
  /\ UNCHANGED <<push, stagings, brokerVars, connVars, device>>

HaInstall ==
  /\ "click" \in OtaEnv
  /\ retManifest # NoManifest /\ ~retInstall
  /\ RetainInstall(TRUE)
  /\ UNCHANGED <<pushVars, device>>

-----------------------------------------------------------------------------
(* The persistent connection of a data cycle (mqtt_sender.cpp): queued     *)
(* manifest and install messages arrive before its state message is        *)
(* acknowledged.  A cycle without values knows no battery level and does   *)
(* not open this connection.                                               *)
tool == <<brokerVars, pushVars>>
idleSession == <<partialVars, signals, s_no_progress_attempts, booted>>

CycleBegins ==
  /\ otaPc = "sleep"
  /\ \E low \in IF "battery" \in OtaEnv THEN BOOLEAN ELSE {FALSE} :
       \/ /\ otaPc' = "persist"
          /\ battery' = [low |-> low, known |-> TRUE]
       \/ /\ "idle" \in OtaEnv
          /\ ota_update_due
          /\ otaPc' = "due"
          /\ battery' = [low |-> low, known |-> FALSE]
  /\ UNCHANGED <<tool, staged, ses, connVars, idleSession>>

(* ota_on_mqtt_data() for the manifest (a deleted one is forgotten, one    *)
(* with an unusable chunk size is ignored) and for the install flag.       *)
handle_manifest(m) ==
  /\ s_manifest' = IF m.chunk_size <= MaxChunk THEN m ELSE s_manifest
  /\ UNCHANGED s_install_requested

handle_install(on) == s_install_requested' = on /\ UNCHANGED s_manifest

OnMail ==
  /\ otaPc = "persist"
  /\ mail # <<>>
  /\ mail' = Tail(mail)
  /\ \/ Head(mail).topic = "manifest" /\ handle_manifest(Head(mail).m)
     \/ Head(mail).topic = "install" /\ handle_install(Head(mail).on)
  /\ UNCHANGED <<retManifest, retInstall, retChunk, approved, pushVars,
                 running, session, connVars, idleSession>>

PersistentCloses ==
  /\ otaPc = "persist"
  /\ mail = <<>>
  /\ otaPc' = "due"
  /\ UNCHANGED <<tool, staged, ses, battery, connVars, idleSession>>

-----------------------------------------------------------------------------
(* run_ota_if_due()                                                        *)

(* start_client() and the client's deletion, which joins esp-mqtt's task.  *)
NewConnection(up) ==
  /\ handler = NoChunk
  /\ connUp' = up
  /\ subs' = {}
  /\ inbox' = <<>>
  /\ UNCHANGED handler

OtaConnects ==
  /\ \/ otaPc = "due" /\ ota_update_due
     \/ otaPc = "after" /\ ota_update_due /\ s_conn_lost
  /\ \/ NewConnection(TRUE) /\ otaPc' = "enter"
     \/ "loss" \in OtaEnv /\ NewConnection(FALSE) /\ otaPc' = "sleep"
  /\ UNCHANGED <<tool, staged, ses, battery, idleSession>>

CycleEnds ==
  /\ \/ otaPc = "due" /\ ~ota_update_due
     \/ otaPc = "after" /\ ~(ota_update_due /\ s_conn_lost)
  /\ NewConnection(FALSE)
  /\ otaPc' = "sleep"
  /\ UNCHANGED <<tool, staged, ses, battery, idleSession>>

-----------------------------------------------------------------------------
(* ota_run_session()                                                       *)

discard_partial ==
  /\ s_ota_handle' = FALSE
  /\ hashing' = FALSE
  /\ s_partial_valid' = FALSE
  /\ s_next_chunk' = 0
  /\ UNCHANGED <<s_partial_manifest, flash, hashed>>

(* The partial download goes on, unless another image is staged.           *)
Resumable == s_partial_valid /\ sameImage(s_manifest, s_partial_manifest)

BatteryDefers == battery.known /\ battery.low /\ ~s_manifest.force

(* Mutant: the connection-loss verdict of the last session is not reset.   *)
MutDeferred ==
  /\ otaPc = "enter"
  /\ BatteryDefers
  /\ otaPc' = "after"
  /\ UNCHANGED <<tool, staged, ses, battery, connVars, partialVars, signals,
                 s_no_progress_attempts, booted>>

(* Mutant: a low battery takes the request back.                           *)
MutDeferredForGood ==
  /\ otaPc = "enter"
  /\ BatteryDefers
  /\ s_install_requested' = FALSE
  /\ s_conn_lost' = FALSE
  /\ otaPc' = "after"
  /\ UNCHANGED <<tool, running, s_manifest, ses, battery, connVars, partialVars,
                 s_session_active, bits, s_no_progress_attempts, booted>>

SessionDeferred ==
  /\ otaPc = "enter"
  /\ BatteryDefers
  /\ s_conn_lost' = FALSE
  /\ otaPc' = "after"
  /\ UNCHANGED <<tool, staged, ses, battery, connVars, partialVars,
                 s_session_active, bits, s_no_progress_attempts, booted>>

(* The image does not fit, or esp_ota_begin() or the hash setup fails.     *)
SessionCannotBegin ==
  /\ otaPc = "enter"
  /\ ~BatteryDefers /\ ~Resumable
  /\ Size[s_manifest.image] > SlotSize \/ "flash" \in OtaEnv
  /\ s_conn_lost' = FALSE
  /\ IF s_partial_valid THEN discard_partial ELSE UNCHANGED partialVars
  /\ s_no_progress_attempts' = s_no_progress_attempts + 1
  /\ otaPc' = "after"
  /\ UNCHANGED <<tool, staged, ses, battery, connVars, s_session_active, bits,
                 booted>>

SessionBegins ==
  /\ otaPc = "enter"
  /\ ~BatteryDefers
  /\ \/ Resumable /\ UNCHANGED partialVars
     \/ /\ ~Resumable
        /\ Size[s_manifest.image] <= SlotSize
        /\ s_partial_valid' = TRUE
        /\ s_partial_manifest' = s_manifest
        /\ s_next_chunk' = 0
        /\ s_ota_handle' = TRUE
        /\ hashing' = TRUE
        /\ flash' = <<>>
        /\ hashed' = <<>>
  /\ ses' = [m |-> s_manifest, start |-> s_next_chunk', done |-> s_next_chunk',
             chunkBit |-> FALSE]
  /\ s_conn_lost' = FALSE
  /\ bits' = {}
  /\ s_session_active' = TRUE
  /\ otaPc' = "prime"
  /\ UNCHANGED <<tool, staged, battery, connVars, s_no_progress_attempts, booted>>

(* subscribe_chunk() for a range of chunks: each retained one is sent, in  *)
(* the order of the subscriptions; it fails without a connection.          *)
Subscribe(lo, hi) ==
  LET kept == {n \in lo..(hi - 1) : n \in ChunkTopics /\ retChunk[n] # <<>>}
  IN  /\ connUp \/ lo = hi
      /\ subs' = subs \cup lo..(hi - 1)
      /\ \E order \in [1..Cardinality(kept) -> kept] :
           /\ \A i, j \in DOMAIN order : i < j => order[i] < order[j]
           /\ inbox' = inbox \o [k \in DOMAIN order |->
                                  [n |-> order[k], bytes |-> retChunk[order[k]]]]
      /\ UNCHANGED <<connUp, handler>>

SubscribeFails(lo, hi) == ~connUp /\ lo < hi /\ UNCHANGED connVars

Prime ==
  /\ otaPc = "prime"
  /\ LET hi == MinOf(ses.start + SubscribePipeline, TotalChunks(ses.m))
     IN  \/ Subscribe(ses.start, hi) /\ otaPc' = "wait"
         \/ SubscribeFails(ses.start, hi) /\ otaPc' = "close"
  /\ UNCHANGED <<tool, staged, ses, battery, idleSession>>

(* xEventGroupWaitBits() takes the bits; a failure ends the loop.          *)
WaitBits ==
  /\ otaPc = "wait"
  /\ ses.done < TotalChunks(ses.m)
  /\ \/ bits # {}
     \/ inbox = <<>> /\ handler = NoChunk
     \/ "slow" \in OtaEnv
  /\ bits' = {}
  /\ ses' = [ses EXCEPT !.chunkBit = "CHUNK" \in bits]
  /\ otaPc' = IF "FAIL" \in bits THEN "close" ELSE "count"
  /\ UNCHANGED <<tool, staged, battery, connVars, partialVars,
                 s_session_active, s_conn_lost, s_no_progress_attempts, booted>>

(* Progress is counted by s_next_chunk; the window is refilled for every   *)
(* chunk completed since the last count.                                   *)
CountChunks ==
  /\ otaPc = "count"
  /\ \/ /\ s_next_chunk = ses.done
        /\ otaPc' = IF ses.chunkBit THEN "wait" ELSE "close"
        /\ UNCHANGED <<ses, connVars>>
     \/ /\ s_next_chunk # ses.done
        /\ LET total == TotalChunks(ses.m)
               lo == MinOf(ses.done + SubscribePipeline, total)
               hi == MinOf(s_next_chunk + SubscribePipeline, total)
           IN  \/ Subscribe(lo, hi) /\ otaPc' = "wait"
               \/ Subscribe(lo, hi) /\ "slow" \in OtaEnv
                    /\ s_next_chunk < total /\ otaPc' = "close"
               \/ SubscribeFails(lo, hi) /\ otaPc' = "close"
        /\ ses' = [ses EXCEPT !.done = s_next_chunk]
  /\ UNCHANGED <<tool, staged, battery, idleSession>>

(* The loop is left, by a failure or with every chunk in.                  *)
SessionCloses ==
  /\ \/ otaPc = "close"
     \/ otaPc = "wait" /\ ses.done = TotalChunks(ses.m)
  /\ s_session_active' = FALSE
  /\ otaPc' = "final"
  /\ UNCHANGED <<tool, staged, ses, battery, connVars, partialVars,
                 s_conn_lost, bits, s_no_progress_attempts, booted>>

AllChunks == ses.done = TotalChunks(ses.m)
(* Mutant: only the length of the download is compared.                    *)
MutShaMatches == hashing /\ Len(hashed) = Size[ses.m.image]

ShaMatches == hashing /\ hashed = WholeImage(ses.m.image)

(* esp_ota_end() and esp_ota_set_boot_partition(), then the success        *)
(* status and the deletion of the install request.                         *)
Install ==
  /\ otaPc = "final"
  /\ AllChunks /\ ShaMatches /\ s_ota_handle
  /\ booted' = [image |-> ses.m.image, bytes |-> flash,
                approved |-> ses.m.image \in approved]
  /\ discard_partial
  /\ otaPc' = "reboot"
  /\ \/ connUp /\ RetainInstall(FALSE)
     \/ /\ ~connUp \/ "loss" \in OtaEnv
        /\ UNCHANGED <<brokerVars, connVars>>
  /\ UNCHANGED <<pushVars, staged, ses, battery, signals, s_no_progress_attempts>>

(* A failed session: a complete download is dropped, a part is kept.  The  *)
(* attempt counts unless the chunk index moved (an unsigned difference).   *)
SessionFails ==
  /\ otaPc = "final"
  /\ \/ ~AllChunks /\ UNCHANGED partialVars
     \/ /\ AllChunks
        /\ ~(ShaMatches /\ s_ota_handle) \/ "flash" \in OtaEnv
        /\ discard_partial
  /\ s_no_progress_attempts' =
       IF s_next_chunk' # ses.start THEN 0 ELSE s_no_progress_attempts + 1
  /\ otaPc' = "after"
  /\ UNCHANGED <<tool, staged, ses, battery, connVars, signals, booted>>

-----------------------------------------------------------------------------
(* esp-mqtt's task                                                         *)

(* handle_image_chunk() up to the mutex: dropped outside a session.        *)
ChunkArrives ==
  /\ connUp
  /\ inbox # <<>>
  /\ handler = NoChunk
  /\ inbox' = Tail(inbox)
  /\ handler' = IF s_session_active THEN Head(inbox) ELSE NoChunk
  /\ UNCHANGED <<tool, staged, session, connUp, subs, idleSession>>

ExpectedLen == ChunkLen(s_partial_manifest, s_next_chunk)

(* handle_image_chunk() under the mutex.                                   *)
Accepts(c) == c.n = s_next_chunk /\ Len(c.bytes) <= MaxChunk

ChunkStored ==
  /\ handler # NoChunk
  /\ Accepts(handler) /\ Len(handler.bytes) = ExpectedLen
  /\ s_ota_handle /\ hashing
  /\ flash' = flash \o handler.bytes
  /\ hashed' = hashed \o handler.bytes
  /\ s_next_chunk' = s_next_chunk + 1
  /\ bits' = bits \cup {"CHUNK"}
  /\ handler' = NoChunk
  /\ UNCHANGED <<tool, staged, session, connUp, subs, inbox, s_partial_valid,
                 s_partial_manifest, s_ota_handle, hashing, s_session_active,
                 s_conn_lost, s_no_progress_attempts, booted>>

ChunkIgnored ==
  /\ handler # NoChunk
  /\ handler.n # s_next_chunk /\ Len(handler.bytes) <= MaxChunk
  /\ handler' = NoChunk
  /\ UNCHANGED <<tool, staged, session, connUp, subs, inbox, idleSession>>

(* Mutant: the index advances although the chunk was not written.          *)
MutRejected ==
  /\ handler # NoChunk
  /\ Accepts(handler) /\ "flash" \in OtaEnv
  /\ s_next_chunk' = s_next_chunk + 1
  /\ bits' = bits \cup {"FAIL"}
  /\ handler' = NoChunk
  /\ UNCHANGED <<tool, staged, session, connUp, subs, inbox, s_partial_valid,
                 s_partial_manifest, s_ota_handle, hashing, flash, hashed,
                 s_session_active, s_conn_lost, s_no_progress_attempts, booted>>

(* An oversized message, a wrong length, or a flash or hash error; the     *)
(* hash can fail after the bytes are in flash and is unusable from then.   *)
ChunkRejected ==
  /\ handler # NoChunk
  /\ \/ /\ \/ Len(handler.bytes) > MaxChunk
           \/ Accepts(handler)
                /\ \/ Len(handler.bytes) # ExpectedLen
                   \/ ~s_ota_handle
                   \/ "flash" \in OtaEnv
        /\ UNCHANGED <<flash, hashing>>
     \/ /\ Accepts(handler) /\ Len(handler.bytes) = ExpectedLen
        /\ s_ota_handle
        /\ ~hashing \/ "flash" \in OtaEnv
        /\ flash' = flash \o handler.bytes
        /\ hashing' = FALSE
  /\ bits' = bits \cup {"FAIL"}
  /\ handler' = NoChunk
  /\ UNCHANGED <<tool, staged, session, connUp, subs, inbox, s_partial_valid,
                 s_partial_manifest, s_next_chunk, s_ota_handle, hashed,
                 s_session_active, s_conn_lost, s_no_progress_attempts, booted>>

(* ota_on_mqtt_error(): the connection drops, outside a session unnoticed. *)
ConnectionLost ==
  /\ "loss" \in OtaEnv
  /\ connUp /\ handler = NoChunk
  /\ connUp' = FALSE
  /\ subs' = {}
  /\ inbox' = <<>>
  /\ s_conn_lost' = (s_conn_lost \/ s_session_active)
  /\ bits' = IF s_session_active THEN bits \cup {"FAIL"} ELSE bits
  /\ UNCHANGED <<tool, staged, session, partialVars, handler, s_session_active,
                 s_no_progress_attempts, booted>>

-----------------------------------------------------------------------------
(* esp_restart() after an install, or a crash: the state in RAM is lost    *)
(* and the first subscribe brings the retained manifest and install flag.  *)
Retained ==
  (IF retManifest # NoManifest THEN <<[topic |-> "manifest", m |-> retManifest]>>
   ELSE <<>>)
  \o (IF retInstall THEN <<[topic |-> "install", on |-> TRUE]>> ELSE <<>>)

RamInit ==
  /\ s_manifest = NoManifest /\ s_install_requested = FALSE
  /\ s_no_progress_attempts = 0
  /\ s_partial_valid = FALSE /\ s_partial_manifest = NoManifest
  /\ s_next_chunk = 0 /\ s_ota_handle = FALSE /\ hashing = FALSE
  /\ flash = <<>> /\ hashed = <<>>
  /\ s_session_active = FALSE /\ s_conn_lost = FALSE /\ bits = {}
  /\ otaPc = "sleep"
  /\ ses = [m |-> NoManifest, start |-> 0, done |-> 0, chunkBit |-> FALSE]
  /\ battery = [low |-> FALSE, known |-> FALSE]
  /\ connUp = FALSE /\ subs = {} /\ inbox = <<>> /\ handler = NoChunk

RamReset ==
  /\ s_manifest' = NoManifest /\ s_install_requested' = FALSE
  /\ s_no_progress_attempts' = 0
  /\ s_partial_valid' = FALSE /\ s_partial_manifest' = NoManifest
  /\ s_next_chunk' = 0 /\ s_ota_handle' = FALSE /\ hashing' = FALSE
  /\ flash' = <<>> /\ hashed' = <<>>
  /\ s_session_active' = FALSE /\ s_conn_lost' = FALSE /\ bits' = {}
  /\ otaPc' = "sleep"
  /\ ses' = [m |-> NoManifest, start |-> 0, done |-> 0, chunkBit |-> FALSE]
  /\ battery' = [low |-> FALSE, known |-> FALSE]
  /\ connUp' = FALSE /\ subs' = {} /\ inbox' = <<>> /\ handler' = NoChunk

Reboot ==
  /\ otaPc = "reboot" \/ "crash" \in OtaEnv
  /\ running' = IF otaPc = "reboot" THEN booted.image ELSE running
  /\ RamReset
  /\ mail' = Retained
  /\ UNCHANGED <<retManifest, retInstall, retChunk, approved, pushVars, booted>>

OtaInit ==
  /\ retManifest = NoManifest /\ retInstall = FALSE
  /\ retChunk = [n \in ChunkTopics |-> <<>>]
  /\ mail = <<>>
  /\ pushPc = "idle"
  /\ push = [stage |-> FALSE, m |-> NoManifest, install |-> FALSE, next |-> 0,
             stale |-> [chunks |-> {}, install |-> FALSE, manifest |-> FALSE]]
  /\ stagings = 0
  /\ running = Factory
  /\ RamInit
  /\ approved = {}
  /\ booted = [image |-> Factory, bytes |-> WholeImage(Factory), approved |-> TRUE]

PushStep ==
  \/ PushStart \/ PushClearChunk \/ PushClearInstall \/ PushClearManifest
  \/ PushChunk \/ PushManifest \/ PushInstall

SessionStep ==
  \/ CycleBegins \/ OnMail \/ PersistentCloses \/ OtaConnects \/ CycleEnds
  \/ SessionDeferred \/ SessionCannotBegin \/ SessionBegins \/ Prime
  \/ WaitBits \/ CountChunks \/ SessionCloses \/ Install \/ SessionFails
  \/ otaPc = "reboot" /\ Reboot

ChunkStep == ChunkArrives \/ ChunkStored \/ ChunkIgnored \/ ChunkRejected

OtaNext ==
  \/ PushStep \/ PushQuits \/ HaInstall \/ SessionStep \/ ChunkStep
  \/ ConnectionLost \/ Reboot

OtaSpec == OtaInit /\ [][OtaNext]_otaVars

(* The publish task and esp-mqtt's task keep running, and the wakes keep   *)
(* coming.                                                                 *)
OtaFairSpec ==
  OtaSpec /\ WF_otaVars(PushStep) /\ WF_otaVars(SessionStep) /\ WF_otaVars(ChunkStep)

-----------------------------------------------------------------------------
(* Every variable holds a value of its C++ type.                           *)
OtaTypeOK ==
  /\ s_manifest \in Manifests \cup {NoManifest}
  /\ s_partial_manifest \in Manifests \cup {NoManifest}
  /\ s_no_progress_attempts \in 0..OtaMaxNoProgressAttempts
  /\ {s_install_requested, s_partial_valid, s_ota_handle, hashing,
      s_session_active, s_conn_lost, connUp} \subseteq BOOLEAN
  /\ s_partial_valid => s_next_chunk \in 0..TotalChunks(s_partial_manifest)
  /\ bits \subseteq {"CHUNK", "FAIL"}
  /\ otaPc \in {"sleep", "persist", "due", "enter", "prime", "wait", "count",
                "close", "final", "after", "reboot"}
  /\ handler = NoChunk \/ handler.n \in ChunkTopics

(* The device never boots anything but a whole image: whatever was staged, *)
(* re-staged or cleared while it downloaded and resumed, the bytes in the  *)
(* update partition when it becomes the boot partition are those of the    *)
(* image whose manifest the session holds (the hash is streamed beside the *)
(* flash writes and only the hash is checked).                             *)
BootsWholeImage == booted.bytes = WholeImage(booted.image)

(* The window and the resume point agree with the flash: a kept partial    *)
(* download whose hash is usable holds exactly the bytes of the chunks     *)
(* before s_next_chunk, so a resumed session asks for the next byte.       *)
ResumePoint ==
  s_partial_valid /\ hashing =>
    /\ flash = hashed
    /\ Len(flash) = MinOf(s_next_chunk * s_partial_manifest.chunk_size,
                          Size[s_partial_manifest.image])

(* README: the device verifies the battery before a download (at least     *)
(* 30 % unless the manifest says force).                                   *)
LowBatteryDefers == s_session_active => ~battery.low \/ ses.m.force

(* ota_updater.cpp: only sessions with zero progress count against the     *)
(* attempt budget.  A session that has counted chunks does not.            *)
ZeroProgressCounts ==
  [][s_no_progress_attempts' > s_no_progress_attempts /\ otaPc = "final"
       => ses.done = ses.start]_otaVars

(* ota_push.py: a device waking mid-staging must not see a manifest whose  *)
(* chunks are not all retained.                                            *)
ManifestHasItsChunks ==
  retManifest # NoManifest =>
    \A n \in 0..(TotalChunks(retManifest) - 1) :
      retChunk[n] = Chunk(retManifest, n)

(* ota_push.py: an image that was only staged waits for its approval.      *)
InstallWasApproved == booted.approved

(* A publish cycle ends: the reconnect loop is bounded by the attempt      *)
(* budget and by the chunks that remain, whatever the link does.           *)
CycleReturns == otaPc = "enter" ~> otaPc \in {"sleep", "reboot"}

(* What keeps an installation from going on: a connection that fails, a    *)
(* wait that ends too soon, a low battery, a crash.                        *)
Disturbed ==
  \/ ConnectionLost
  \/ OtaConnects /\ ~connUp'
  \/ WaitBits /\ bits = {} /\ (inbox # <<>> \/ handler # NoChunk)
  \/ CountChunks /\ s_next_chunk # ses.done /\ connUp /\ otaPc' = "close"
  \/ CycleBegins /\ battery'.low
  \/ otaPc # "reboot" /\ Reboot

(* An install request for a usable image does not stay outstanding for     *)
(* ever.  Once the disturbances stop, and whatever they have left behind   *)
(* (a part of a download, a deferral, a restart half way), the image is at *)
(* last the running one, or the attempts are used up.                      *)
RequestIsServed ==
  \/ []<><<Disturbed>>_otaVars
  \/ []<>~(/\ retInstall /\ retManifest # NoManifest
           /\ retManifest.image # running
           /\ retManifest.chunk_size <= MaxChunk
           /\ s_no_progress_attempts < OtaMaxNoProgressAttempts)

(* The same without the attempts: a device that has used them up still     *)
(* installs what is asked for, without a restart.                          *)
RequestIsNotLockedOut ==
  []<>~(retInstall /\ retManifest # NoManifest /\ retManifest.image # running)

(* README: the retained install command is picked up on the next wake.     *)
(* Finishing the install of one image does not delete a request that was   *)
(* made for another.                                                       *)
RequestSurvives ==
  [][otaPc = "final" /\ retInstall /\ ~retInstall' /\ retManifest.image \in approved
       => retManifest.image = ses.m.image]_otaVars
=============================================================================
