-------------------------- MODULE OtaUpdaterProofs --------------------------
(***************************************************************************)
(* Theorems about the chunked firmware update, for any images, sizes,      *)
(* chunk sizes and any behaviour of the environment.                       *)
(***************************************************************************)
EXTENDS OtaUpdater, FiniteSetTheorems, TLAPS

-----------------------------------------------------------------------------
(* What boots.  Only the hash is compared with the manifest, so that the   *)
(* flash holds the image rests on the hash having been fed exactly what    *)
(* was written: while the hash operation is usable, the two agree.  A      *)
(* write whose hash update fails makes it unusable.                        *)
HashFollowsFlash == hashing => flash = hashed

BootInv == HashFollowsFlash /\ BootsWholeImage

(* Steps that touch neither the partial download nor the boot partition.   *)
LEMMA BootUntouched ==
  ASSUME BootInv, UNCHANGED <<hashing, flash, hashed, booted>>
  PROVE  BootInv'
  BY DEF BootInv, HashFollowsFlash, BootsWholeImage, WholeImage

(* Steps that drop the hash operation.                                     *)
LEMMA HashDropped ==
  ASSUME BootInv, hashing' = FALSE, UNCHANGED booted
  PROVE  BootInv'
  BY DEF BootInv, HashFollowsFlash, BootsWholeImage, WholeImage

LEMMA PushKeepsBoot ==
  ASSUME BootInv, PushStep \/ PushQuits \/ HaInstall
  PROVE  BootInv'
<1>1. UNCHANGED <<hashing, flash, hashed, booted>>
  BY DEF PushStep, PushQuits, HaInstall, PushStart, PushClearChunk,
         PushClearInstall, PushClearManifest, PushChunk, PushManifest,
         PushInstall, device, partialVars
<1> QED
  BY <1>1, BootUntouched

LEMMA SessionKeepsBoot ==
  ASSUME BootInv, SessionStep \/ Reboot
  PROVE  BootInv'
<1>1. CASE \/ CycleBegins \/ OnMail \/ PersistentCloses \/ OtaConnects
           \/ CycleEnds \/ SessionDeferred \/ Prime \/ WaitBits
           \/ CountChunks \/ SessionCloses
  <2>1. UNCHANGED <<hashing, flash, hashed, booted>>
    BY <1>1 DEF CycleBegins, OnMail, PersistentCloses, OtaConnects, CycleEnds,
         SessionDeferred, Prime, WaitBits, CountChunks, SessionCloses,
         idleSession, partialVars
  <2> QED
    BY <2>1, BootUntouched
<1>2. CASE SessionCannotBegin
  <2>1. UNCHANGED booted
    BY <1>2 DEF SessionCannotBegin
  <2>2. CASE s_partial_valid
    BY <1>2, <2>1, <2>2, HashDropped DEF SessionCannotBegin, discard_partial
  <2>3. CASE ~s_partial_valid
    BY <1>2, <2>1, <2>3, BootUntouched DEF SessionCannotBegin, partialVars
  <2> QED
    BY <2>2, <2>3
<1>3. CASE SessionBegins
  <2>1. UNCHANGED booted
    BY <1>3 DEF SessionBegins
  <2>2. CASE UNCHANGED partialVars
    BY <2>1, <2>2, BootUntouched DEF partialVars
  <2>3. CASE flash' = <<>> /\ hashed' = <<>>
    BY <2>1, <2>3 DEF BootInv, HashFollowsFlash, BootsWholeImage, WholeImage
  <2> QED
    BY <1>3, <2>2, <2>3 DEF SessionBegins
<1>4. CASE Install
  <2>1. hashed = WholeImage(ses.m.image) /\ flash = hashed
    BY <1>4 DEF Install, ShaMatches, BootInv, HashFollowsFlash
  <2>2. booted' = [image |-> ses.m.image, bytes |-> flash,
                   approved |-> ses.m.image \in approved]
    BY <1>4 DEF Install
  <2>3. BootsWholeImage'
    BY <2>1, <2>2 DEF BootsWholeImage, WholeImage
  <2>4. hashing' = FALSE
    BY <1>4 DEF Install, discard_partial
  <2> QED
    BY <2>3, <2>4 DEF BootInv, HashFollowsFlash
<1>5. CASE SessionFails
  <2>1. UNCHANGED booted
    BY <1>5 DEF SessionFails
  <2>2. CASE UNCHANGED partialVars
    BY <2>1, <2>2, BootUntouched DEF partialVars
  <2>3. CASE discard_partial
    BY <2>1, <2>3, HashDropped DEF discard_partial
  <2> QED
    BY <1>5, <2>2, <2>3 DEF SessionFails
<1>6. CASE Reboot
  BY <1>6, HashDropped DEF Reboot, RamReset
<1> QED
  BY <1>1, <1>2, <1>3, <1>4, <1>5, <1>6 DEF SessionStep

LEMMA ChunkKeepsBoot ==
  ASSUME BootInv, ChunkStep \/ ConnectionLost
  PROVE  BootInv'
<1>1. CASE ChunkArrives \/ ChunkIgnored \/ ConnectionLost
  <2>1. UNCHANGED <<hashing, flash, hashed, booted>>
    BY <1>1 DEF ChunkArrives, ChunkIgnored, ConnectionLost, idleSession,
         partialVars
  <2> QED
    BY <2>1, BootUntouched
<1>2. CASE ChunkStored
  <2>1. hashing /\ UNCHANGED booted
    BY <1>2 DEF ChunkStored
  <2>2. flash = hashed
    BY <2>1 DEF BootInv, HashFollowsFlash
  <2>3. flash' = hashed'
    BY <1>2, <2>2 DEF ChunkStored
  <2> QED
    BY <2>1, <2>3 DEF BootInv, HashFollowsFlash, BootsWholeImage, WholeImage
<1>3. CASE ChunkRejected
  <2>1. UNCHANGED <<hashed, booted>>
    BY <1>3 DEF ChunkRejected
  <2>2. CASE UNCHANGED <<flash, hashing>>
    BY <2>1, <2>2, BootUntouched
  <2>3. CASE hashing' = FALSE
    BY <2>1, <2>3, HashDropped
  <2> QED
    BY <1>3, <2>2, <2>3 DEF ChunkRejected
<1> QED
  BY <1>1, <1>2, <1>3 DEF ChunkStep

(* Whatever is staged, re-staged, cleared, lost or interrupted, the bytes  *)
(* that become bootable are those of the image the session's manifest      *)
(* names.                                                                  *)
THEOREM WholeImageBoots == OtaSpec => []BootsWholeImage
<1>1. OtaInit => BootInv
  BY DEF OtaInit, RamInit, BootInv, HashFollowsFlash, BootsWholeImage
<1>2. BootInv /\ [OtaNext]_otaVars => BootInv'
  <2> SUFFICES ASSUME BootInv, [OtaNext]_otaVars PROVE BootInv'
    OBVIOUS
  <2>1. CASE UNCHANGED otaVars
    BY <2>1, BootUntouched DEF otaVars, partialVars
  <2>2. CASE OtaNext
    BY <2>2, PushKeepsBoot, SessionKeepsBoot, ChunkKeepsBoot DEF OtaNext
  <2> QED
    BY <2>1, <2>2
<1>3. BootInv => BootsWholeImage
  BY DEF BootInv
<1> QED
  BY <1>1, <1>2, <1>3, PTL DEF OtaSpec

-----------------------------------------------------------------------------
(* Where a download resumes.  The length of the flash is compared with the *)
(* chunk index, so the argument needs the kinds of the values that travel  *)
(* from the staging tool through the broker to the handler.                *)
AnyManifest == Manifests \cup {NoManifest}
Payload == Seq(Images \X Int)
Message == [n : Int, bytes : Payload]
Mail == [topic : {"manifest"}, m : AnyManifest] \cup [topic : {"install"}, on : BOOLEAN]

BrokerTypes ==
  /\ retManifest \in AnyManifest
  /\ retChunk \in [ChunkTopics -> Payload]
  /\ mail \in Seq(Mail)

ToolTypes ==
  push \in [stage : BOOLEAN, m : AnyManifest, install : BOOLEAN, next : Nat,
            stale : [chunks : SUBSET ChunkTopics, install : BOOLEAN, manifest : BOOLEAN]]

ConnTypes == inbox \in Seq(Message) /\ handler \in Message

DeviceTypes ==
  /\ s_manifest \in AnyManifest /\ s_partial_manifest \in AnyManifest
  /\ s_next_chunk \in Nat
  /\ flash \in Payload

SessionTypes ==
  /\ ses \in [m : AnyManifest, start : Nat, done : Nat, chunkBit : BOOLEAN]
  /\ otaPc = "enter" => s_manifest \in Manifests
  /\ otaPc \in {"prime", "wait", "count"} => ses.m \in Manifests

KindsInv == BrokerTypes /\ ToolTypes /\ ConnTypes /\ DeviceTypes /\ SessionTypes

LEMMA ManifestParts ==
  ASSUME NEW m \in AnyManifest
  PROVE  m.image \in Images /\ m.chunk_size \in Nat /\ Size[m.image] \in Nat
<1>1. CASE m \in Manifests
  <2>1. m.image \in Images /\ m.chunk_size \in ChunkSizes
    BY <1>1 DEF Manifests
  <2> QED
    BY <2>1, OtaAssumption
<1>2. CASE m = NoManifest
  <2>1. m.image = Factory /\ m.chunk_size = 0
    BY <1>2 DEF NoManifest
  <2> QED
    BY <2>1, OtaAssumption
<1> QED
  BY <1>1, <1>2 DEF AnyManifest

LEMMA ChunkIsPayload ==
  ASSUME NEW m \in AnyManifest, NEW n \in Nat
  PROVE  Chunk(m, n) \in Payload
<1>1. m.image \in Images /\ m.chunk_size \in Nat /\ Size[m.image] \in Nat
  BY ManifestParts
<1>2. PICK from \in Int : from = n * m.chunk_size
  BY <1>1
<1>3. ChunkLen(m, n) \in Int
  BY <1>1, <1>2 DEF ChunkLen, MinOf
<1>4. PICK len \in Nat : 1..ChunkLen(m, n) = 1..len
  <2>1. CASE ChunkLen(m, n) >= 0
    BY <1>3, <2>1
  <2>2. CASE ~(ChunkLen(m, n) >= 0)
    <3>1. 1..ChunkLen(m, n) = 1..0
      BY <1>3, <2>2
    <3> QED
      BY <3>1
  <2> QED
    BY <2>1, <2>2
<1>5. Chunk(m, n) = [k \in 1..len |-> <<m.image, from + k - 1>>]
  BY <1>2, <1>4, Zenon DEF Chunk, Bytes
<1>6. \A k \in 1..len : <<m.image, from + k - 1>> \in Images \X Int
  BY <1>1
<1>7. Chunk(m, n) \in [1..len -> Images \X Int]
  BY <1>5, <1>6, Zenon
<1> QED
  BY <1>7 DEF Payload

LEMMA NothingIsPayload == <<>> \in Payload
  BY DEF Payload

LEMMA PayloadGrows ==
  ASSUME NEW p \in Payload, NEW q \in Payload
  PROVE  p \o q \in Payload /\ Len(p \o q) = Len(p) + Len(q)
         /\ Len(p) \in Nat /\ Len(q) \in Nat
  BY DEF Payload

LEMMA NoChunkIsMessage == NoChunk \in Message
  BY NothingIsPayload DEF NoChunk, Message

LEMMA TopicType == \A n \in ChunkTopics : n \in Int
<1> SUFFICES ASSUME NEW m \in Manifests, NEW n \in 0..(TotalChunks(m) - 1)
             PROVE  n \in Int
  BY DEF ChunkTopics
<1> QED
  OBVIOUS

LEMMA FirstManifest == NoManifest \in AnyManifest
  BY DEF AnyManifest

(* One retained publish by the tool.                                       *)
LEMMA RetainChunkKinds ==
  ASSUME BrokerTypes, ConnTypes, NEW n \in Int, NEW payload \in Payload,
         RetainChunk(n, payload)
  PROVE  BrokerTypes' /\ ConnTypes'
<1>1. retChunk' \in [ChunkTopics -> Payload]
  BY DEF RetainChunk, BrokerTypes
<1>2. [n |-> n, bytes |-> payload] \in Message
  BY DEF Message
<1>3. inbox' \in Seq(Message)
  BY <1>2 DEF RetainChunk, ConnTypes
<1> QED
  BY <1>1, <1>3 DEF RetainChunk, BrokerTypes, ConnTypes

LEMMA RetainManifestKinds ==
  ASSUME BrokerTypes, ConnTypes, NEW m \in AnyManifest, RetainManifest(m)
  PROVE  BrokerTypes' /\ ConnTypes'
<1>1. [topic |-> "manifest", m |-> m] \in Mail
  BY DEF Mail
<1> QED
  BY <1>1 DEF RetainManifest, BrokerTypes, ConnTypes, connVars

LEMMA RetainInstallKinds ==
  ASSUME BrokerTypes, ConnTypes, NEW on \in BOOLEAN, RetainInstall(on)
  PROVE  BrokerTypes' /\ ConnTypes'
<1>1. [topic |-> "install", on |-> on] \in Mail
  BY DEF Mail
<1> QED
  BY <1>1 DEF RetainInstall, BrokerTypes, ConnTypes, connVars

LEMMA BrokerKept ==
  ASSUME BrokerTypes, ConnTypes, UNCHANGED <<brokerVars, connVars>>
  PROVE  BrokerTypes' /\ ConnTypes'
  BY DEF BrokerTypes, ConnTypes, brokerVars, connVars

LEMMA DeviceKept ==
  ASSUME DeviceTypes, SessionTypes, UNCHANGED <<partialVars, staged, session>>
  PROVE  DeviceTypes' /\ SessionTypes'
  BY DEF DeviceTypes, SessionTypes, partialVars, staged, session

(* The staging tool and the person at Home Assistant.                      *)
LEMMA PushKinds ==
  ASSUME KindsInv, PushStep \/ PushQuits \/ HaInstall
  PROVE  KindsInv'
<1>0. BrokerTypes /\ ToolTypes /\ ConnTypes /\ DeviceTypes /\ SessionTypes
  BY DEF KindsInv
<1>1. UNCHANGED <<partialVars, staged, session>>
  BY DEF PushStep, PushQuits, HaInstall, PushStart, PushClearChunk,
         PushClearInstall, PushClearManifest, PushChunk, PushManifest,
         PushInstall, device
<1>2. DeviceTypes' /\ SessionTypes'
  BY <1>0, <1>1, DeviceKept
<1>3. push.m \in AnyManifest /\ push.next \in Nat /\ push.stale.chunks \in SUBSET ChunkTopics
  BY <1>0 DEF ToolTypes
<1>4. CASE PushStart
  <2>1. BrokerTypes' /\ ConnTypes'
    BY <1>0, <1>4, BrokerKept DEF PushStart
  <2>2. ASSUME NEW stage \in BOOLEAN, NEW m \in AnyManifest
        PROVE  Stale(stage, m) \in
                 [chunks : SUBSET ChunkTopics, install : BOOLEAN, manifest : BOOLEAN]
    BY DEF Stale
  <2>3. ToolTypes'
    <3>1. CASE \E m \in Manifests, install \in BOOLEAN :
                 push' = [stage |-> TRUE, m |-> m, install |-> install, next |-> 0,
                          stale |-> Stale(TRUE, m)]
      <4>1. PICK m \in Manifests, install \in BOOLEAN :
              push' = [stage |-> TRUE, m |-> m, install |-> install, next |-> 0,
                       stale |-> Stale(TRUE, m)]
        BY <3>1
      <4>2. m \in AnyManifest
        BY DEF AnyManifest
      <4> QED
        BY <2>2, <4>1, <4>2 DEF ToolTypes
    <3>2. CASE push' = [stage |-> FALSE, m |-> NoManifest, install |-> FALSE,
                        next |-> 0, stale |-> Stale(FALSE, NoManifest)]
      BY <2>2, <3>2, FirstManifest DEF ToolTypes
    <3> QED
      BY <1>4, <3>1, <3>2 DEF PushStart
  <2> QED
    BY <1>2, <2>1, <2>3 DEF KindsInv
<1>5. CASE PushClearChunk
  <2>1. PICK n \in push.stale.chunks :
          RetainChunk(n, <<>>) /\ push' = [push EXCEPT !.stale.chunks = @ \ {n}]
    BY <1>5 DEF PushClearChunk
  <2>2. n \in Int
    BY <1>3, <2>1, TopicType
  <2>3. BrokerTypes' /\ ConnTypes'
    BY <1>0, <2>1, <2>2, NothingIsPayload, RetainChunkKinds
  <2>4. ToolTypes'
    BY <1>0, <2>1 DEF ToolTypes
  <2> QED
    BY <1>2, <2>3, <2>4 DEF KindsInv
<1>6. CASE PushClearInstall
  <2>1. BrokerTypes' /\ ConnTypes'
    BY <1>0, <1>6, RetainInstallKinds DEF PushClearInstall
  <2>2. ToolTypes'
    BY <1>0, <1>6 DEF PushClearInstall, ToolTypes
  <2> QED
    BY <1>2, <2>1, <2>2 DEF KindsInv
<1>7. CASE PushClearManifest
  <2>1. BrokerTypes' /\ ConnTypes'
    BY <1>0, <1>7, RetainManifestKinds, FirstManifest, BrokerKept DEF PushClearManifest
  <2>2. ToolTypes'
    BY <1>0, <1>7 DEF PushClearManifest, ToolTypes
  <2> QED
    BY <1>2, <2>1, <2>2 DEF KindsInv
<1>8. CASE PushChunk
  <2>1. /\ RetainChunk(push.next, Chunk(push.m, push.next))
        /\ push' = [push EXCEPT !.next = @ + 1]
    BY <1>8 DEF PushChunk
  <2>2. Chunk(push.m, push.next) \in Payload
    BY <1>3, ChunkIsPayload
  <2>3. BrokerTypes' /\ ConnTypes'
    BY <1>0, <1>3, <2>1, <2>2, RetainChunkKinds
  <2>4. ToolTypes'
    BY <1>0, <2>1 DEF ToolTypes
  <2> QED
    BY <1>2, <2>3, <2>4 DEF KindsInv
<1>9. CASE PushManifest
  <2>1. BrokerTypes' /\ ConnTypes'
    BY <1>0, <1>3, <1>9, RetainManifestKinds DEF PushManifest
  <2>2. ToolTypes'
    BY <1>0, <1>9 DEF PushManifest, ToolTypes
  <2> QED
    BY <1>2, <2>1, <2>2 DEF KindsInv
<1>10. CASE PushInstall \/ HaInstall
  <2>1. RetainInstall(TRUE) /\ UNCHANGED push
    BY <1>10 DEF PushInstall, HaInstall, pushVars
  <2>2. BrokerTypes' /\ ConnTypes'
    BY <1>0, <2>1, RetainInstallKinds
  <2>3. ToolTypes'
    BY <1>0, <2>1 DEF ToolTypes
  <2> QED
    BY <1>2, <2>2, <2>3 DEF KindsInv
<1>11. CASE PushQuits
  <2>1. BrokerTypes' /\ ConnTypes'
    BY <1>0, <1>11, BrokerKept DEF PushQuits
  <2>2. ToolTypes'
    BY <1>0, <1>11 DEF PushQuits, ToolTypes
  <2> QED
    BY <1>2, <2>1, <2>2 DEF KindsInv
<1> QED
  BY <1>4, <1>5, <1>6, <1>7, <1>8, <1>9, <1>10, <1>11 DEF PushStep

(* A subscription hands over retained chunks.                              *)
LEMMA SubscribeKinds ==
  ASSUME BrokerTypes, ConnTypes, NEW lo \in Int, NEW hi \in Int,
         Subscribe(lo, hi) \/ SubscribeFails(lo, hi)
  PROVE  ConnTypes'
<1>1. CASE SubscribeFails(lo, hi)
  BY <1>1 DEF SubscribeFails, ConnTypes, connVars
<1>2. CASE Subscribe(lo, hi)
  <2> DEFINE kept == {n \in lo..(hi - 1) : n \in ChunkTopics /\ retChunk[n] # <<>>}
  <2>1. PICK order \in [1..Cardinality(kept) -> kept] :
          inbox' = inbox \o [k \in DOMAIN order |->
                               [n |-> order[k], bytes |-> retChunk[order[k]]]]
    BY <1>2 DEF Subscribe
  <2>2. PICK c \in Nat : c = Cardinality(kept)
    <3>1. hi - 1 \in Int
      OBVIOUS
    <3>2. IsFiniteSet(lo..(hi - 1))
      BY <3>1, FS_Interval
    <3>3. kept \in SUBSET (lo..(hi - 1))
      OBVIOUS
    <3>4. IsFiniteSet(kept)
      BY <3>2, <3>3, FS_Subset
    <3> QED
      BY <3>4, FS_CardinalityType
  <2>3. order \in [1..c -> Int] /\ DOMAIN order = 1..c
        /\ \A k \in 1..c : order[k] \in ChunkTopics
    BY <2>1, <2>2
  <2> HIDE DEF kept
  <2>4. \A k \in 1..c : [n |-> order[k], bytes |-> retChunk[order[k]]] \in Message
    BY <2>3 DEF BrokerTypes, Message
  <2>5. [k \in DOMAIN order |-> [n |-> order[k], bytes |-> retChunk[order[k]]]]
          \in [1..c -> Message]
    BY <2>3, <2>4, Zenon
  <2>6. inbox' \in Seq(Message)
    <3>1. PICK q \in [1..c -> Message] : inbox' = inbox \o q
      BY <2>1, <2>5
    <3>2. q \in Seq(Message)
      BY <2>2
    <3> QED
      BY <3>1, <3>2 DEF ConnTypes
  <2> QED
    BY <1>2, <2>6 DEF Subscribe, ConnTypes
<1> QED
  BY <1>1, <1>2

LEMMA TotalChunksType ==
  ASSUME NEW m \in Manifests
  PROVE  TotalChunks(m) \in Int
<1>1. m.chunk_size \in Nat \ {0} /\ Size[m.image] \in Nat
  BY OtaAssumption DEF Manifests
<1> QED
  BY <1>1 DEF TotalChunks

(* A new connection, or none.                                              *)
LEMMA ConnectKinds ==
  ASSUME ConnTypes, NEW up, NewConnection(up)
  PROVE  ConnTypes'
  BY DEF NewConnection, ConnTypes

(* Steps that leave what is staged, what is downloaded and the session's   *)
(* manifest alone.                                                         *)
LEMMA SessionGoesOn ==
  ASSUME KindsInv, ConnTypes', UNCHANGED <<tool, s_manifest, partialVars>>,
         ses' = ses \/ \E d \in Nat, b \in BOOLEAN :
                         ses' = [ses EXCEPT !.done = d]
                           \/ ses' = [ses EXCEPT !.chunkBit = b],
         otaPc' = "enter" => s_manifest \in Manifests,
         otaPc' \in {"prime", "wait", "count"} => ses.m \in Manifests
  PROVE  KindsInv'
<1>1. BrokerTypes' /\ ToolTypes' /\ DeviceTypes'
  BY DEF KindsInv, BrokerTypes, ToolTypes, DeviceTypes, tool, brokerVars, pushVars,
         partialVars
<1>2. ses \in [m : AnyManifest, start : Nat, done : Nat, chunkBit : BOOLEAN]
  BY DEF KindsInv, SessionTypes
<1>3. ses'.m = ses.m
      /\ ses' \in [m : AnyManifest, start : Nat, done : Nat, chunkBit : BOOLEAN]
  BY <1>2
<1>4. SessionTypes'
  BY <1>3 DEF SessionTypes
<1> QED
  BY <1>1, <1>4 DEF KindsInv

(* The publish task's steps, and a restart.                                *)
LEMMA SessionKinds ==
  ASSUME KindsInv, SessionStep \/ Reboot
  PROVE  KindsInv'
<1>0. BrokerTypes /\ ToolTypes /\ ConnTypes /\ DeviceTypes /\ SessionTypes
  BY DEF KindsInv
<1>a. ConnTypes' \/ inbox' # inbox \/ handler' # handler
  BY <1>0 DEF ConnTypes
<1>1. CASE CycleBegins \/ PersistentCloses \/ SessionDeferred \/ SessionCloses
  <2>1. /\ UNCHANGED <<tool, s_manifest, partialVars, ses, inbox, handler>>
        /\ otaPc' \notin {"enter", "prime", "wait", "count"}
    BY <1>1 DEF CycleBegins, PersistentCloses, SessionDeferred, SessionCloses,
         staged, idleSession, connVars
  <2> QED
    BY <1>a, <2>1, SessionGoesOn
<1>2. CASE OnMail
  <2>1. mail \in Seq(Mail) /\ mail # <<>>
    BY <1>0, <1>2 DEF OnMail, BrokerTypes
  <2>2. Head(mail) \in Mail /\ Tail(mail) \in Seq(Mail)
    BY <2>1
  <2>3. s_manifest' \in AnyManifest
    <3>1. CASE Head(mail).topic = "manifest" /\ handle_manifest(Head(mail).m)
      <4>1. Head(mail).m \in AnyManifest
        BY <2>2, <3>1 DEF Mail
      <4>2. s_manifest' \in {Head(mail).m, s_manifest}
        BY <3>1 DEF handle_manifest
      <4> QED
        BY <1>0, <4>1, <4>2 DEF DeviceTypes
    <3>2. CASE handle_install(Head(mail).on)
      BY <1>0, <3>2 DEF handle_install, DeviceTypes
    <3> QED
      BY <1>2, <3>1, <3>2 DEF OnMail
  <2>4. /\ UNCHANGED <<retManifest, retChunk, push, partialVars, ses, otaPc, inbox, handler>>
        /\ mail' = Tail(mail) /\ otaPc = "persist"
    BY <1>2 DEF OnMail, pushVars, session, connVars, idleSession
  <2>5. BrokerTypes' /\ ToolTypes' /\ ConnTypes'
    BY <1>0, <2>2, <2>4 DEF BrokerTypes, ToolTypes, ConnTypes
  <2>6. DeviceTypes' /\ SessionTypes'
    BY <1>0, <2>3, <2>4 DEF DeviceTypes, SessionTypes, partialVars
  <2> QED
    BY <2>5, <2>6 DEF KindsInv
<1>3. CASE OtaConnects
  <2>1. UNCHANGED <<tool, s_manifest, partialVars, ses>> /\ otaPc' \in {"enter", "sleep"}
    BY <1>3 DEF OtaConnects, staged, idleSession
  <2>2. s_manifest \in Manifests
    BY <1>0, <1>3 DEF OtaConnects, ota_update_due, DeviceTypes, AnyManifest
  <2>3. ConnTypes'
    BY <1>0, <1>3, ConnectKinds DEF OtaConnects
  <2> QED
    BY <2>1, <2>2, <2>3, SessionGoesOn
<1>4. CASE CycleEnds
  <2>1. UNCHANGED <<tool, s_manifest, partialVars, ses>> /\ otaPc' = "sleep"
    BY <1>4 DEF CycleEnds, staged, idleSession
  <2>2. ConnTypes'
    BY <1>0, <1>4, ConnectKinds DEF CycleEnds
  <2> QED
    BY <2>1, <2>2, SessionGoesOn
<1>5. CASE SessionCannotBegin
  <2>1. /\ UNCHANGED <<tool, s_manifest, ses, inbox, handler>> /\ otaPc' = "after"
        /\ UNCHANGED <<s_partial_manifest, flash>>
        /\ s_next_chunk' \in {0, s_next_chunk}
    BY <1>5 DEF SessionCannotBegin, staged, connVars, partialVars, discard_partial
  <2> QED
    BY <1>0, <2>1 DEF KindsInv, BrokerTypes, ToolTypes, ConnTypes, DeviceTypes,
       SessionTypes, tool, brokerVars, pushVars
<1>6. CASE SessionBegins
  <2>1. /\ UNCHANGED <<tool, s_manifest, inbox, handler>> /\ otaPc' = "prime"
        /\ otaPc = "enter"
        /\ ses' = [m |-> s_manifest, start |-> s_next_chunk', done |-> s_next_chunk',
                    chunkBit |-> FALSE]
    BY <1>6 DEF SessionBegins, staged, connVars
  <2>2. DeviceTypes'
    <3>1. CASE UNCHANGED partialVars
      BY <1>0, <2>1, <3>1 DEF DeviceTypes, partialVars
    <3>2. CASE s_partial_manifest' = s_manifest /\ s_next_chunk' = 0 /\ flash' = <<>>
      BY <1>0, <2>1, <3>2, NothingIsPayload DEF DeviceTypes
    <3> QED
      BY <1>6, <3>1, <3>2 DEF SessionBegins
  <2>3. s_manifest \in Manifests /\ s_next_chunk' \in Nat
    BY <1>0, <2>1, <2>2 DEF SessionTypes, DeviceTypes
  <2>4. SessionTypes'
    BY <2>1, <2>3 DEF SessionTypes, AnyManifest
  <2>5. BrokerTypes' /\ ToolTypes' /\ ConnTypes'
    BY <1>0, <2>1 DEF BrokerTypes, ToolTypes, ConnTypes, tool, brokerVars, pushVars
  <2> QED
    BY <2>2, <2>4, <2>5 DEF KindsInv
<1>7. CASE Prime
  <2>1. UNCHANGED <<tool, s_manifest, partialVars, ses>> /\ otaPc' \in {"wait", "close"}
        /\ otaPc = "prime"
    BY <1>7 DEF Prime, staged, idleSession
  <2>2. ses.m \in Manifests /\ ses.start \in Nat
    BY <1>0, <2>1 DEF SessionTypes
  <2>3. TotalChunks(ses.m) \in Int
    BY <2>2, TotalChunksType
  <2>4. MinOf(ses.start + SubscribePipeline, TotalChunks(ses.m)) \in Int
    BY <2>2, <2>3 DEF MinOf, SubscribePipeline
  <2>5. ConnTypes'
    BY <1>0, <1>7, <2>2, <2>4, SubscribeKinds DEF Prime
  <2> QED
    BY <2>1, <2>2, <2>5, SessionGoesOn
<1>8. CASE WaitBits
  <2>1. /\ UNCHANGED <<tool, s_manifest, partialVars, inbox, handler>>
        /\ otaPc' \in {"close", "count"} /\ otaPc = "wait"
    BY <1>8 DEF WaitBits, staged, connVars
  <2>2. \E b \in BOOLEAN : ses' = [ses EXCEPT !.chunkBit = b]
    <3>1. ("CHUNK" \in bits) \in BOOLEAN
      OBVIOUS
    <3> QED
      BY <1>8, <3>1 DEF WaitBits
  <2>3. ses.m \in Manifests
    BY <1>0, <2>1 DEF SessionTypes
  <2> QED
    BY <1>a, <2>1, <2>2, <2>3, SessionGoesOn
<1>9. CASE CountChunks
  <2>1. /\ UNCHANGED <<tool, s_manifest, partialVars>>
        /\ otaPc' \in {"close", "wait"} /\ otaPc = "count"
    BY <1>9 DEF CountChunks, staged, idleSession
  <2>2. ses.m \in Manifests /\ ses.done \in Nat /\ s_next_chunk \in Nat
    BY <1>0, <2>1 DEF SessionTypes, DeviceTypes
  <2>3. ses' = ses \/ \E d \in Nat : ses' = [ses EXCEPT !.done = d]
    BY <1>9, <2>2 DEF CountChunks
  <2>4. TotalChunks(ses.m) \in Int
    BY <2>2, TotalChunksType
  <2>5. MinOf(ses.done + SubscribePipeline, TotalChunks(ses.m)) \in Int
        /\ MinOf(s_next_chunk + SubscribePipeline, TotalChunks(ses.m)) \in Int
    BY <2>2, <2>4 DEF MinOf, SubscribePipeline
  <2>6. ConnTypes'
    <3>1. CASE UNCHANGED connVars
      BY <1>0, <3>1 DEF ConnTypes, connVars
    <3>2. CASE s_next_chunk # ses.done
      BY <1>0, <1>9, <2>5, <3>2, SubscribeKinds DEF CountChunks
    <3> QED
      BY <1>9, <3>1, <3>2 DEF CountChunks
  <2> QED
    BY <2>1, <2>2, <2>3, <2>6, SessionGoesOn
<1>10. CASE Install
  <2>1. BrokerTypes' /\ ConnTypes'
    BY <1>0, <1>10, RetainInstallKinds, BrokerKept DEF Install
  <2>2. /\ UNCHANGED <<push, s_manifest, ses, s_partial_manifest, flash>>
        /\ otaPc' = "reboot" /\ s_next_chunk' = 0
    BY <1>10 DEF Install, pushVars, staged, discard_partial
  <2> QED
    BY <1>0, <2>1, <2>2 DEF KindsInv, ToolTypes, DeviceTypes, SessionTypes
<1>11. CASE SessionFails
  <2>1. /\ UNCHANGED <<tool, s_manifest, ses, inbox, handler>> /\ otaPc' = "after"
        /\ UNCHANGED <<s_partial_manifest, flash>>
        /\ s_next_chunk' \in {0, s_next_chunk}
    BY <1>11 DEF SessionFails, staged, connVars, partialVars, discard_partial
  <2> QED
    BY <1>0, <2>1 DEF KindsInv, BrokerTypes, ToolTypes, ConnTypes, DeviceTypes,
       SessionTypes, tool, brokerVars, pushVars
<1>12. CASE Reboot
  <2>1. RamReset /\ mail' = Retained /\ UNCHANGED <<retManifest, retChunk, push>>
    BY <1>12 DEF Reboot, pushVars
  <2>2. Retained \in Seq(Mail)
    <3>1. [topic |-> "manifest", m |-> retManifest] \in Mail
      BY <1>0 DEF BrokerTypes, Mail
    <3>2. [topic |-> "install", on |-> TRUE] \in Mail
      BY DEF Mail
    <3> QED
      BY <3>1, <3>2 DEF Retained
  <2>3. BrokerTypes' /\ ToolTypes'
    BY <1>0, <2>1, <2>2 DEF BrokerTypes, ToolTypes
  <2>4. ConnTypes'
    BY <2>1, NoChunkIsMessage DEF RamReset, ConnTypes
  <2>5. DeviceTypes' /\ SessionTypes'
    BY <2>1, FirstManifest, NothingIsPayload DEF RamReset, DeviceTypes, SessionTypes
  <2> QED
    BY <2>3, <2>4, <2>5 DEF KindsInv
<1> QED
  BY <1>1, <1>2, <1>3, <1>4, <1>5, <1>6, <1>7, <1>8, <1>9, <1>10, <1>11, <1>12
  DEF SessionStep

(* esp-mqtt's task, and the link.                                          *)
LEMMA ChunkKinds ==
  ASSUME KindsInv, ChunkStep \/ ConnectionLost
  PROVE  KindsInv'
<1>0. BrokerTypes /\ ToolTypes /\ ConnTypes /\ DeviceTypes /\ SessionTypes
  BY DEF KindsInv
<1>1. CASE ChunkArrives \/ ChunkIgnored \/ ConnectionLost
  <2>1. UNCHANGED <<tool, s_manifest, partialVars, ses, otaPc>>
    BY <1>1 DEF ChunkArrives, ChunkIgnored, ConnectionLost, staged, session, idleSession
  <2>2. ConnTypes'
    <3>1. CASE ChunkArrives
      <4>1. Head(inbox) \in Message /\ Tail(inbox) \in Seq(Message)
        BY <1>0, <3>1 DEF ChunkArrives, ConnTypes
      <4> QED
        BY <3>1, <4>1, NoChunkIsMessage DEF ChunkArrives, ConnTypes
    <3>2. CASE ChunkIgnored
      BY <1>0, <3>2, NoChunkIsMessage DEF ChunkIgnored, ConnTypes
    <3>3. CASE ConnectionLost
      BY <1>0, <3>3 DEF ConnectionLost, ConnTypes
    <3> QED
      BY <1>1, <3>1, <3>2, <3>3
  <2> QED
    BY <1>0, <2>1, <2>2, SessionGoesOn DEF SessionTypes
<1>2. CASE ChunkStored \/ ChunkRejected
  <2>1. /\ UNCHANGED <<tool, s_manifest, s_partial_manifest, ses, otaPc, inbox>>
        /\ handler' = NoChunk
    BY <1>2 DEF ChunkStored, ChunkRejected, staged, session
  <2>2. handler.bytes \in Payload /\ flash \in Payload /\ s_next_chunk \in Nat
    BY <1>0 DEF ConnTypes, Message, DeviceTypes
  <2>3. s_next_chunk' \in {s_next_chunk, s_next_chunk + 1}
        /\ flash' \in {flash, flash \o handler.bytes}
    BY <1>2 DEF ChunkStored, ChunkRejected
  <2>4. s_next_chunk' \in Nat /\ flash' \in Payload
    <3>1. s_next_chunk' \in Nat
      BY <2>2, <2>3
    <3>2. flash \o handler.bytes \in Payload
      BY <2>2, PayloadGrows
    <3> QED
      BY <2>2, <2>3, <3>1, <3>2
  <2>5. DeviceTypes' /\ SessionTypes'
    BY <1>0, <2>1, <2>4 DEF DeviceTypes, SessionTypes
  <2>6. BrokerTypes' /\ ToolTypes' /\ ConnTypes'
    BY <1>0, <2>1, NoChunkIsMessage
    DEF BrokerTypes, ToolTypes, ConnTypes, tool, brokerVars, pushVars
  <2> QED
    BY <2>5, <2>6 DEF KindsInv
<1> QED
  BY <1>1, <1>2 DEF ChunkStep

(* The length that has been written after one more chunk.                  *)
LEMMA NextLength ==
  ASSUME NEW n \in Nat, NEW cs \in Nat, NEW size \in Nat, NEW len \in Nat,
         NEW a \in Int, a = n * cs, len = MinOf(cs, size - a)
  PROVE  MinOf(a, size) + len = MinOf((n + 1) * cs, size)
<1>1. (n + 1) * cs = a + cs
  OBVIOUS
<1>2. MinOf(a, size) + len = MinOf(a + cs, size)
  BY DEF MinOf
<1> QED
  BY <1>1, <1>2

LEMMA ResumeKept ==
  ASSUME ResumePoint,
         \/ UNCHANGED <<s_partial_valid, hashing, flash, hashed, s_next_chunk, s_partial_manifest>>
         \/ hashing' = FALSE
  PROVE  ResumePoint'
  BY DEF ResumePoint, MinOf

LEMMA ResumeStep ==
  ASSUME KindsInv, ResumePoint, [OtaNext]_otaVars
  PROVE  ResumePoint'
<1>1. CASE ChunkStored
  <2>1. /\ flash' = flash \o handler.bytes /\ hashed' = hashed \o handler.bytes
        /\ s_next_chunk' = s_next_chunk + 1
        /\ UNCHANGED <<s_partial_valid, s_partial_manifest, hashing>>
        /\ hashing /\ Len(handler.bytes) = ExpectedLen
    BY <1>1 DEF ChunkStored
  <2> SUFFICES ASSUME s_partial_valid
               PROVE  flash' = hashed'
                      /\ Len(flash') = MinOf((s_next_chunk + 1) * s_partial_manifest.chunk_size,
                                             Size[s_partial_manifest.image])
    BY <2>1 DEF ResumePoint, MinOf
  <2>2. flash = hashed
        /\ Len(flash) = MinOf(s_next_chunk * s_partial_manifest.chunk_size,
                              Size[s_partial_manifest.image])
    BY <2>1 DEF ResumePoint
  <2>3. /\ s_next_chunk \in Nat /\ flash \in Payload /\ handler.bytes \in Payload
        /\ s_partial_manifest \in AnyManifest
    BY DEF KindsInv, DeviceTypes, ConnTypes, Message
  <2>4. s_partial_manifest.chunk_size \in Nat /\ Size[s_partial_manifest.image] \in Nat
    BY <2>3, ManifestParts
  <2>5. Len(handler.bytes) = MinOf(s_partial_manifest.chunk_size,
            Size[s_partial_manifest.image] - s_next_chunk * s_partial_manifest.chunk_size)
    BY <2>1 DEF ExpectedLen, ChunkLen
  <2>6. Len(handler.bytes) \in Nat /\ Len(flash') = Len(flash) + Len(handler.bytes)
    BY <2>1, <2>3, PayloadGrows
  <2>7. Len(flash) + Len(handler.bytes)
          = MinOf((s_next_chunk + 1) * s_partial_manifest.chunk_size,
                  Size[s_partial_manifest.image])
    <3>1. PICK n \in Nat, cs \in Nat, size \in Nat, len \in Nat :
            /\ n = s_next_chunk /\ cs = s_partial_manifest.chunk_size
            /\ size = Size[s_partial_manifest.image] /\ len = Len(handler.bytes)
      BY <2>3, <2>4, <2>6
    <3>2. PICK a \in Int : a = n * cs
      OBVIOUS
    <3>3. len = MinOf(cs, size - a) /\ Len(flash) = MinOf(a, size)
      BY <2>2, <2>5, <3>1, <3>2
    <3>4. MinOf(a, size) + len = MinOf((n + 1) * cs, size)
      BY <3>2, <3>3, NextLength
    <3> QED
      BY <3>1, <3>3, <3>4
  <2> QED
    BY <2>1, <2>2, <2>6, <2>7
<1>2. CASE ChunkRejected
  BY <1>2, ResumeKept DEF ChunkRejected
<1>3. CASE SessionBegins
  <2>1. CASE UNCHANGED partialVars
    BY <2>1, ResumeKept DEF partialVars
  <2>2. CASE s_partial_manifest' = s_manifest /\ s_next_chunk' = 0
               /\ flash' = <<>> /\ hashed' = <<>>
    <3>1. s_manifest \in AnyManifest
      BY DEF KindsInv, DeviceTypes
    <3>2. s_manifest.chunk_size \in Nat /\ Size[s_manifest.image] \in Nat
      BY <3>1, ManifestParts
    <3>3. Len(flash') = 0 /\ MinOf(0 * s_manifest.chunk_size, Size[s_manifest.image]) = 0
      BY <2>2, <3>2 DEF MinOf
    <3> QED
      BY <2>2, <3>3 DEF ResumePoint, MinOf
  <2> QED
    BY <1>3, <2>1, <2>2 DEF SessionBegins
<1>4. CASE SessionCannotBegin \/ Install \/ SessionFails \/ Reboot
  <2>1. hashing' = FALSE \/ UNCHANGED partialVars
    BY <1>4 DEF SessionCannotBegin, Install, SessionFails, Reboot, RamReset, discard_partial
  <2> QED
    BY <2>1, ResumeKept DEF partialVars
<1>5. CASE \/ PushStep \/ PushQuits \/ HaInstall \/ CycleBegins \/ OnMail
           \/ PersistentCloses \/ OtaConnects \/ CycleEnds \/ SessionDeferred
           \/ Prime \/ WaitBits \/ CountChunks \/ SessionCloses
           \/ ChunkArrives \/ ChunkIgnored \/ ConnectionLost \/ UNCHANGED otaVars
  <2>1. UNCHANGED partialVars
    BY <1>5 DEF PushStep, PushQuits, HaInstall, PushStart, PushClearChunk,
         PushClearInstall, PushClearManifest, PushChunk, PushManifest,
         PushInstall, device, CycleBegins, OnMail, PersistentCloses, OtaConnects,
         CycleEnds, SessionDeferred, Prime, WaitBits, CountChunks, SessionCloses,
         ChunkArrives, ChunkIgnored, ConnectionLost, idleSession, otaVars
  <2> QED
    BY <2>1, ResumeKept DEF partialVars
<1> QED
  BY <1>1, <1>2, <1>3, <1>4, <1>5 DEF OtaNext, SessionStep, ChunkStep

(* A kept download whose hash is usable holds exactly the bytes of the     *)
(* chunks before the index it resumes at, whatever sizes the images and    *)
(* the chunks have and whenever sessions were cut off.                     *)
THEOREM ResumesAtNextByte == OtaSpec => []ResumePoint
<1> DEFINE Inv == KindsInv /\ ResumePoint
<1>1. OtaInit => Inv
  <2> SUFFICES ASSUME OtaInit PROVE Inv
    OBVIOUS
  <2>1. ResumePoint
    BY DEF OtaInit, RamInit, ResumePoint
  <2>2. BrokerTypes
    BY FirstManifest, NothingIsPayload DEF OtaInit, BrokerTypes
  <2>3. ToolTypes
    BY FirstManifest DEF OtaInit, ToolTypes
  <2>4. ConnTypes
    BY NoChunkIsMessage DEF OtaInit, RamInit, ConnTypes
  <2>5. DeviceTypes /\ SessionTypes
    BY FirstManifest, NothingIsPayload DEF OtaInit, RamInit, DeviceTypes, SessionTypes
  <2> QED
    BY <2>1, <2>2, <2>3, <2>4, <2>5 DEF KindsInv
<1>2. Inv /\ [OtaNext]_otaVars => Inv'
  <2> SUFFICES ASSUME Inv, [OtaNext]_otaVars PROVE Inv'
    OBVIOUS
  <2>1. ResumePoint'
    BY ResumeStep
  <2>2. CASE UNCHANGED otaVars
    <3>1. UNCHANGED <<brokerVars, connVars, partialVars, staged, session, push>>
      BY <2>2 DEF otaVars, pushVars
    <3>2. ToolTypes'
      BY <3>1 DEF KindsInv, ToolTypes
    <3> QED
      BY <2>1, <3>1, <3>2, BrokerKept, DeviceKept DEF KindsInv
  <2>3. CASE OtaNext
    BY <2>1, <2>3, PushKinds, SessionKinds, ChunkKinds DEF OtaNext
  <2> QED
    BY <2>2, <2>3
<1> QED
  BY <1>1, <1>2, PTL DEF OtaSpec
=============================================================================
