--------------------------- MODULE VelopackProofs ---------------------------
(***************************************************************************)
(* Safety of VelopackUpload for any packages, bundles, selections and      *)
(* number of uploads.                                                      *)
(***************************************************************************)
EXTENDS VelopackUpload, FiniteSetTheorems, SequenceTheorems, WellFoundedInduction, TLAPS

Stock == [Identities -> {None} \cup Artifact]
Rows == [file : Files, metadata : {"waiting", "read", "bad"},
         operation : {"idle", "uploading", "verified", "failed"}]
Entries == [file : Files, from : Releases \cup {0}]
InFlight == {"ticket", "transfer", "complete"}
Loops == [card : 0 .. MaxUploads, queue : Seq(Entries),
          step : {"none", "next", "over"} \cup InFlight, full : SUBSET Releases]

TypeInv ==
    /\ artifacts \in Stock
    /\ inventory \in {None} \cup Stock
    /\ card \in Uploads
    /\ packages \in Seq(Rows)
    /\ overrides \in [Files -> Releases \cup {0}]
    /\ bundle \in Bundles \cup {None}
    /\ reading \subseteq Bundles
    /\ busy \in {"", "analyzing", "uploading"}
    /\ loops \in [Uploads -> Loops]
    /\ begun \subseteq Identities
    /\ proved \subseteq Identities \X Files

Active(u) == loops[u].card = card /\ loops[u].step # "over"
Flying(u) == loops[u].step \in InFlight

\* A card has one upload at a time, and is busy with it; only a delta has a
\* source; and a loop that has asked for a ticket has a package to send.
LoopsInv ==
    /\ \A u \in Uploads :
          /\ loops[u].card <= card
          /\ \A i \in 1 .. Len(loops[u].queue) :
                Kind[loops[u].queue[i].file] = "full" => loops[u].queue[i].from = 0
          /\ Flying(u) => loops[u].queue # <<>>
    /\ \A u, v \in Uploads : Active(u) /\ Active(v) => u = v
    /\ busy = "uploading" <=> \E u \in Uploads : Active(u)

\* Whatever was ever seen as verified was proved.
ProvedInv ==
    /\ \A identity \in Identities :
          Verified(artifacts, identity) => <<identity, artifacts[identity].file>> \in proved
    /\ inventory # None => \A identity \in Identities :
          Verified(inventory, identity) => <<identity, inventory[identity].file>> \in proved
    /\ \A u \in Uploads : \A v \in loops[u].full :
          \E file \in Files : <<Full(v), file>> \in proved

\* An identity is the package's of the loop that has the ticket for it.
Claimed(u) ==
    /\ artifacts[IdentityOf(Current(u))] \in Artifact
    /\ artifacts[IdentityOf(Current(u))].file = Current(u).file

ClaimInv == \A u \in Uploads : loops[u].step \in {"transfer", "complete"} => Claimed(u)

\* A row that is marked as being uploaded is what the card's loop uploads.
Uploaded(row) ==
    row.operation = "uploading" =>
        \E u \in Uploads : Active(u) /\ Flying(u) /\ Current(u).file = row.file

Proved(row) ==
    row.operation = "verified" =>
        \E proof \in proved : /\ proof[2] = row.file
                             /\ proof[1][1] = Kind[row.file]
                             /\ proof[1][2] = ReleaseOf[row.file]

RowInv == \A i \in 1 .. Len(packages) : Uploaded(packages[i]) /\ Proved(packages[i])

IInv == TypeInv /\ LoopsInv /\ ProvedInv /\ ClaimInv /\ RowInv /\ DeltasFollowTheirSource

-----------------------------------------------------------------------------
\* The operators the card is built from.

\* A nonempty set of releases has a newest one, which collectDeltaSourceVersions
\* would be sorted to begin with.
LEMMA NewestIsOneOfThem ==
  ASSUME NEW S, S \subseteq Releases, S # {}
  PROVE  Newest(S) \in S
<1>. DEFINE Newer(v) == {w \in S : w > v}
            Sets == {Newer(v) : v \in S}
<1>1. S \subseteq Nat
  BY FilesAssumption DEF Releases
<1>2. IsFiniteSet(S)
  <2>1. IsFiniteSet(Releases)
    <3>1. ReleaseOf \in Surjection(Files, Releases)
      BY FilesAssumption DEF Releases, Surjection
    <3>. QED  BY <3>1, FilesAssumption, FS_Surjection
  <2>. QED  BY <2>1, FS_Subset
<1>3. IsWellFoundedOn(StrictSubsetOrdering(S), SUBSET S)
  BY <1>2, FS_StrictSubsetOrderingWellFounded, FS_FiniteSubsetsOfFinite
<1>4. Sets \subseteq SUBSET S /\ Sets # {}
  OBVIOUS
<1>5. PICK T \in Sets : \A U \in Sets : <<U, T>> \notin StrictSubsetOrdering(S)
  BY <1>3, <1>4, WFMin
<1>6. PICK v \in S : T = Newer(v)
  OBVIOUS
<1>7. \A w \in S : w <= v
  <2>1. SUFFICES ASSUME NEW w \in S, w > v PROVE FALSE
    <3>1. \A w \in S : w \in Nat /\ v \in Nat
      BY <1>1
    <3>. QED  BY <3>1
  <2>2. Newer(w) \subseteq Newer(v) /\ w \in Newer(v) /\ w \notin Newer(w)
    <3>1. v \in Nat /\ w \in Nat /\ ~(w > w)
      BY <1>1
    <3>2. ASSUME NEW x \in S, x > w PROVE x > v
      <4>1. x \in Nat
        BY <1>1
      <4>. QED  BY <2>1, <3>1, <3>2, <4>1
    <3>. QED  BY <2>1, <3>1, <3>2
  <2>3. <<Newer(w), T>> \in StrictSubsetOrdering(S)
    BY <1>6, <2>2 DEF StrictSubsetOrdering
  <2>. QED  BY <1>5, <2>3
<1>. QED  BY <1>7 DEF Newest

LEMMA SourcesAreReleases == ASSUME NEW file PROVE SourceVersions(file) \subseteq Releases
BY DEF SourceVersions

\* A package of the card has an identity, and a full one has no source.
LEMMA IdentityType ==
  ASSUME NEW file \in Files
  PROVE  /\ DeltaFrom(file) \in Releases \cup {0}
         /\ Kind[file] = "full" => DeltaFrom(file) = 0
         /\ Identity(file) \in Identities
<1>1. CASE SourceVersions(file) = {}
  <2>1. DeltaFrom(file) = 0
    BY <1>1 DEF DeltaFrom
  <2>. QED  BY <2>1, FilesAssumption DEF Identity, Identities, Releases
<1>2. CASE SourceVersions(file) # {}
  <2>1. Kind[file] = "delta"
    BY <1>2, FilesAssumption DEF SourceVersions
  <2>2. Newest(SourceVersions(file)) \in SourceVersions(file)
    BY <1>2, NewestIsOneOfThem, SourcesAreReleases
  <2>3. DeltaFrom(file) \in SourceVersions(file)
    BY <1>2, <2>2 DEF DeltaFrom
  <2>4. DeltaFrom(file) \in Releases
    BY <2>3, SourcesAreReleases
  <2>. QED  BY <2>1, <2>4 DEF Identity, Identities, Releases
<1>. QED  BY <1>1, <1>2

LEMMA EntryType ==
  ASSUME NEW entry \in Entries, Kind[entry.file] = "full" => entry.from = 0
  PROVE  /\ IdentityOf(entry) \in Identities
         /\ Kind[entry.file] = "full" => IdentityOf(entry) = Full(ReleaseOf[entry.file])
BY FilesAssumption DEF Entries, IdentityOf, Identities, Releases, Full

LEMMA FullIsAnIdentity == ASSUME NEW v \in Releases PROVE Full(v) \in Identities
BY DEF Full, Identities

\* What the loops say of their packages.
LEMMA CurrentType ==
  ASSUME IInv, NEW u \in Uploads, loops[u].queue # <<>>
  PROVE  /\ Current(u) \in Entries /\ Current(u).file \in Files
         /\ Kind[Current(u).file] = "full" => Current(u).from = 0
         /\ IdentityOf(Current(u)) \in Identities
         /\ Tail(loops[u].queue) \in Seq(Entries)
         /\ \A i \in 1 .. Len(Tail(loops[u].queue)) :
               Kind[Tail(loops[u].queue)[i].file] = "full" => Tail(loops[u].queue)[i].from = 0
<1>1. loops[u].queue \in Seq(Entries)
  BY DEF IInv, TypeInv, Loops
<1>2. /\ Current(u) = loops[u].queue[1] /\ 1 \in 1 .. Len(loops[u].queue)
      /\ Tail(loops[u].queue) \in Seq(Entries)
      /\ Len(Tail(loops[u].queue)) = Len(loops[u].queue) - 1
      /\ \A i \in 1 .. Len(Tail(loops[u].queue)) :
            Tail(loops[u].queue)[i] = loops[u].queue[i + 1]
  BY <1>1 DEF Current
<1>3. Current(u) \in Entries /\ (Kind[Current(u).file] = "full" => Current(u).from = 0)
  BY <1>1, <1>2 DEF IInv, LoopsInv
<1>4. \A i \in 1 .. Len(Tail(loops[u].queue)) :
         Kind[Tail(loops[u].queue)[i].file] = "full" => Tail(loops[u].queue)[i].from = 0
  BY <1>1, <1>2 DEF IInv, LoopsInv
<1>. QED  BY <1>2, <1>3, <1>4, EntryType DEF Entries

-----------------------------------------------------------------------------
LEMMA InitIInv == Init => IInv
<1>. SUFFICES ASSUME Init PROVE IInv
  OBVIOUS
<1>1. PICK had \in SUBSET {file \in Files : Kind[file] = "full"} :
        artifacts = [identity \in Identities |->
                        IF \E file \in had : identity = Full(ReleaseOf[file])
                        THEN [status |-> "verified",
                              file |-> CHOOSE file \in had : identity = Full(ReleaseOf[file])]
                        ELSE None]
  BY DEF Init
<1>2. artifacts \in Stock
  <2>1. ASSUME NEW identity \in Identities, \E file \in had : identity = Full(ReleaseOf[file])
        PROVE  [status |-> "verified",
                file |-> CHOOSE file \in had : identity = Full(ReleaseOf[file])] \in Artifact
    BY <2>1 DEF Artifact
  <2>. QED  BY <1>1, <2>1 DEF Stock
<1>3. /\ proved = {<<identity, artifacts[identity].file>> :
                      identity \in {i \in Identities : artifacts[i] # None}}
      /\ proved \subseteq Identities \X Files
  <2>1. proved = {<<identity, artifacts[identity].file>> :
                      identity \in {i \in Identities : artifacts[i] # None}}
    BY DEF Init
  <2>2. \A identity \in Identities : artifacts[identity] # None => artifacts[identity].file \in Files
    BY <1>2 DEF Stock, Artifact
  <2>. QED  BY <2>1, <2>2
<1>4. TypeInv
  <2>1. NoLoop \in Loops
    BY UploadsAssumption DEF NoLoop, Loops
  <2>2. packages \in Seq(Rows) /\ card \in Uploads
    <3>1. packages = <<>> /\ card = 1
      BY DEF Init
    <3>. QED  BY <3>1, UploadsAssumption DEF Uploads
  <2>. QED  BY <1>2, <1>3, <2>1, <2>2 DEF Init, TypeInv
<1>5. LoopsInv
  <2>1. \A u \in Uploads : loops[u].card = 0 /\ loops[u].step = "none"
    BY DEF Init, NoLoop
  <2>2. \A u \in Uploads : Len(loops[u].queue) = 0
    BY DEF Init, NoLoop
  <2>3. card = 1 /\ busy # "uploading"
    BY DEF Init
  <2>4. \A u \in Uploads : 1 .. Len(loops[u].queue) = {}
    BY <2>2
  <2>5. \A u \in Uploads : loops[u].card <= card /\ ~Active(u) /\ ~Flying(u)
    BY <2>1, <2>3 DEF Active, Flying, InFlight
  <2>. QED  BY <2>3, <2>4, <2>5 DEF LoopsInv
<1>6. ProvedInv /\ ClaimInv
  BY <1>3 DEF Init, ProvedInv, ClaimInv, Verified, NoLoop
<1>7. RowInv /\ DeltasFollowTheirSource
  <2>1. Len(packages) = 0 /\ begun = {}
    BY DEF Init
  <2>. QED  BY <2>1 DEF RowInv, DeltasFollowTheirSource
<1>. QED  BY <1>4, <1>5, <1>6, <1>7 DEF IInv

-----------------------------------------------------------------------------
\* The server: it proves what it verifies, and an artifact keeps its file.
ServerKeeps ==
    /\ artifacts' \in Stock
    /\ proved \subseteq proved' /\ proved' \subseteq Identities \X Files
    /\ \A identity \in Identities :
          /\ Verified(artifacts', identity) =>
                <<identity, artifacts'[identity].file>> \in proved'
          /\ artifacts[identity] \in Artifact =>
                /\ artifacts'[identity] \in Artifact
                /\ artifacts'[identity].file = artifacts[identity].file

LEMMA ServerRests == IInv /\ UNCHANGED <<artifacts, proved>> => ServerKeeps
BY DEF IInv, TypeInv, ProvedInv, ServerKeeps

LEMMA TicketGiven ==
  ASSUME IInv, NEW u \in Uploads, At(u, "ticket"), UNCHANGED proved,
         artifacts[IdentityOf(Current(u))] = None,
         artifacts' = [artifacts EXCEPT ![IdentityOf(Current(u))] =
                          [status |-> "uploading", file |-> Current(u).file]]
  PROVE  /\ ServerKeeps
         /\ artifacts'[IdentityOf(Current(u))] =
               [status |-> "uploading", file |-> Current(u).file]
<1>. DEFINE id == IdentityOf(Current(u))
            given == [status |-> "uploading", file |-> Current(u).file]
<1>1. id \in Identities /\ given \in Artifact
  BY CurrentType DEF At, Artifact
<1>2. /\ artifacts' \in Stock /\ artifacts'[id] = given
      /\ \A identity \in Identities \ {id} : artifacts'[identity] = artifacts[identity]
  BY <1>1 DEF IInv, TypeInv, Stock
<1>3. ~Verified(artifacts', id)
  BY <1>2 DEF Verified
<1>4. proved \subseteq proved' /\ proved' \subseteq Identities \X Files
  BY DEF IInv, TypeInv
<1>5. ASSUME NEW identity \in Identities
      PROVE  /\ Verified(artifacts', identity) =>
                  <<identity, artifacts'[identity].file>> \in proved'
             /\ artifacts[identity] \in Artifact =>
                  /\ artifacts'[identity] \in Artifact
                  /\ artifacts'[identity].file = artifacts[identity].file
  <2>1. CASE identity = id
    BY <1>3, <2>1, NoneIsNothing
  <2>2. CASE identity # id
    BY <1>2, <2>2 DEF IInv, ProvedInv, Verified
  <2>. QED  BY <2>1, <2>2
<1>. QED  BY <1>2, <1>4, <1>5 DEF ServerKeeps

LEMMA VerdictGiven ==
  ASSUME IInv, NEW u \in Uploads, At(u, "complete"),
         NEW status \in {"verified", "rejected"}, Verdict(u, status)
  PROVE  /\ ServerKeeps
         /\ status = "verified" => <<IdentityOf(Current(u)), Current(u).file>> \in proved'
<1>. DEFINE id == IdentityOf(Current(u))
<1>1. id \in Identities /\ Current(u).file \in Files
  BY CurrentType DEF At
<1>2. artifacts[id] \in Artifact /\ artifacts[id].file = Current(u).file
  BY DEF IInv, ClaimInv, Claimed, At
<1>3. /\ [artifacts[id] EXCEPT !.status = status] \in Artifact
      /\ [artifacts[id] EXCEPT !.status = status].file = Current(u).file
      /\ [artifacts[id] EXCEPT !.status = status].status = status
  BY <1>2 DEF Artifact
<1>4. /\ artifacts' \in Stock
      /\ artifacts'[id] = [artifacts[id] EXCEPT !.status = status]
      /\ \A identity \in Identities \ {id} : artifacts'[identity] = artifacts[identity]
  BY <1>1, <1>3 DEF IInv, TypeInv, Stock, Verdict
<1>5. /\ proved \subseteq proved' /\ proved' \subseteq Identities \X Files
      /\ status = "verified" => <<id, Current(u).file>> \in proved'
  <2>1. proved \subseteq Identities \X Files /\ <<id, Current(u).file>> \in Identities \X Files
    BY <1>1 DEF IInv, TypeInv
  <2>2. proved' = IF status = "verified" THEN proved \cup {<<id, Current(u).file>>} ELSE proved
    BY DEF Verdict
  <2>. HIDE DEF id
  <2>. QED  BY <2>1, <2>2
<1>6. ASSUME NEW identity \in Identities
      PROVE  /\ Verified(artifacts', identity) =>
                  <<identity, artifacts'[identity].file>> \in proved'
             /\ artifacts[identity] \in Artifact =>
                  /\ artifacts'[identity] \in Artifact
                  /\ artifacts'[identity].file = artifacts[identity].file
  <2>1. CASE identity = id
    BY <1>2, <1>3, <1>4, <1>5, <2>1 DEF Verified
  <2>2. CASE identity # id
    BY <1>4, <1>5, <2>2 DEF IInv, ProvedInv, Verified
  <2>. QED  BY <2>1, <2>2
<1>. QED  BY <1>4, <1>5, <1>6 DEF ServerKeeps

-----------------------------------------------------------------------------
\* The rows of the card, when the loop u says how its package stands.
LEMMA RowsKeepType ==
  ASSUME IInv, NEW u \in Uploads, NEW operation \in {"uploading", "verified", "failed"},
         SetPackageOperation(u, operation)
  PROVE  /\ packages' \in Seq(Rows) /\ Len(packages') = Len(packages)
         /\ \A i \in 1 .. Len(packages) :
               packages'[i] = IF loops[u].card = card /\ packages[i].file = Current(u).file
                              THEN [packages[i] EXCEPT !.operation = operation]
                              ELSE packages[i]
<1>. DEFINE row(i) == IF packages[i].file = Current(u).file
                      THEN [packages[i] EXCEPT !.operation = operation] ELSE packages[i]
<1>1. packages \in Seq(Rows) /\ Len(packages) \in Nat
  <2>1. packages \in Seq(Rows)
    BY DEF IInv, TypeInv
  <2>. QED  BY <2>1
<1>2. CASE loops[u].card = card
  <2>1. \A i \in 1 .. Len(packages) : row(i) \in Rows
    <3>. TAKE i \in 1 .. Len(packages)
    <3>1. packages[i] \in Rows
      BY <1>1
    <3>. QED  BY <3>1 DEF Rows
  <2>2. packages' = [i \in 1 .. Len(packages) |-> row(i)]
    BY <1>2 DEF SetPackageOperation
  <2>. QED  BY <1>1, <1>2, <2>1, <2>2
<1>3. CASE loops[u].card # card
  BY <1>1, <1>3 DEF SetPackageOperation
<1>. QED  BY <1>2, <1>3

LEMMA RowsStayRight ==
  ASSUME IInv, NEW u \in Uploads, NEW operation \in {"uploading", "verified", "failed"},
         SetPackageOperation(u, operation), UNCHANGED card, proved \subseteq proved',
         Flying(u) \/ loops[u].step = "next",
         \A v \in Uploads \ {u} : loops'[v] = loops[v],
         loops'[u].card = loops[u].card,
         operation = "uploading" =>
            /\ loops'[u].step \in InFlight
            /\ Head(loops'[u].queue) = Current(u),
         operation = "verified" =>
            /\ Current(u).file \in Files
            /\ <<IdentityOf(Current(u)), Current(u).file>> \in proved'
  PROVE  RowInv'
<1>. SUFFICES ASSUME NEW i \in 1 .. Len(packages')
              PROVE  Uploaded(packages[i])' /\ Proved(packages[i])'
  BY DEF RowInv
<1>1. /\ i \in 1 .. Len(packages)
      /\ packages[i] \in Rows
      /\ Uploaded(packages[i]) /\ Proved(packages[i])
      /\ packages'[i] = IF loops[u].card = card /\ packages[i].file = Current(u).file
                        THEN [packages[i] EXCEPT !.operation = operation]
                        ELSE packages[i]
  <2>1. packages \in Seq(Rows)
    BY DEF IInv, TypeInv
  <2>2. i \in 1 .. Len(packages)
    BY RowsKeepType
  <2>. QED  BY <2>1, <2>2, RowsKeepType DEF IInv, RowInv
<1>2. CASE loops[u].card = card /\ packages[i].file = Current(u).file
  <2>1. /\ packages'[i].file = Current(u).file
        /\ packages'[i].operation = operation
    BY <1>1, <1>2 DEF Rows
  <2>2. Uploaded(packages[i])'
    BY <1>2, <2>1 DEF Uploaded, Active, Flying, Current, InFlight
  <2>3. Proved(packages[i])'
    BY <2>1 DEF Proved, IdentityOf
  <2>. QED  BY <2>2, <2>3
<1>3. CASE ~(loops[u].card = card /\ packages[i].file = Current(u).file)
  <2>1. packages'[i] = packages[i]
    BY <1>1, <1>3
  <2>2. Proved(packages[i])'
    BY <1>1, <2>1 DEF Proved
  <2>3. ASSUME packages[i].operation = "uploading"
        PROVE  \E v \in Uploads : Active(v)' /\ Flying(v)' /\ Current(v)'.file = packages[i].file
    <3>1. PICK v \in Uploads : Active(v) /\ Flying(v) /\ Current(v).file = packages[i].file
      BY <1>1, <2>3 DEF Uploaded
    <3>2. v # u
      BY <1>3, <3>1 DEF Active
    <3>. QED  BY <3>1, <3>2 DEF Active, Flying, Current
  <2>4. Uploaded(packages[i])'
    BY <2>1, <2>3 DEF Uploaded
  <2>. QED  BY <2>2, <2>4
<1>. QED  BY <1>2, <1>3

\* What a step of a loop leaves to show, when it goes on.
LEMMA LoopKeepsInv ==
  ASSUME IInv, ServerKeeps, NEW u \in Uploads, At(u, "next") \/ Flying(u),
         UNCHANGED <<inventory, card, overrides, bundle, reading, busy>>,
         packages' \in Seq(Rows), RowInv',
         begun' \subseteq Identities, DeltasFollowTheirSource',
         NEW new \in Loops, loops' = [loops EXCEPT ![u] = new],
         new.card = loops[u].card, new.step \notin {"none", "over"},
         \A i \in 1 .. Len(new.queue) :
            Kind[new.queue[i].file] = "full" => new.queue[i].from = 0,
         new.step \in InFlight => new.queue # <<>>,
         new.step \in {"transfer", "complete"} => Claimed(u)',
         \A v \in new.full : \E file \in Files : <<Full(v), file>> \in proved'
  PROVE  IInv'
<1>1. /\ loops' \in [Uploads -> Loops] /\ loops'[u] = new
      /\ \A v \in Uploads \ {u} : loops'[v] = loops[v]
  BY DEF IInv, TypeInv
<1>2. loops[u].step \notin {"none", "over"}
  BY DEF At, Flying, InFlight
<1>3. TypeInv'
  BY <1>1 DEF IInv, TypeInv, ServerKeeps
<1>4. LoopsInv'
  <2>1. ASSUME NEW v \in Uploads PROVE Active(v)' <=> Active(v)
    BY <1>1, <1>2 DEF Active
  <2>2. ASSUME NEW v \in Uploads
        PROVE  /\ loops'[v].card <= card'
               /\ \A i \in 1 .. Len(loops'[v].queue) :
                     Kind[loops'[v].queue[i].file] = "full" => loops'[v].queue[i].from = 0
               /\ Flying(v)' => loops'[v].queue # <<>>
    <3>1. CASE v = u
      <4>1. loops'[v].card <= card'
        BY <1>1, <3>1 DEF IInv, LoopsInv
      <4>2. \A i \in 1 .. Len(loops'[v].queue) :
               Kind[loops'[v].queue[i].file] = "full" => loops'[v].queue[i].from = 0
        BY <1>1, <3>1
      <4>3. Flying(v)' => loops'[v].queue # <<>>
        BY <1>1, <3>1 DEF Flying
      <4>. QED  BY <4>1, <4>2, <4>3
    <3>2. CASE v # u
      BY <1>1, <3>2 DEF IInv, LoopsInv, Flying
    <3>. QED  BY <3>1, <3>2
  <2>3. busy' = "uploading" <=> \E v \in Uploads : Active(v)'
    BY <2>1 DEF IInv, LoopsInv
  <2>4. \A v, w \in Uploads : Active(v)' /\ Active(w)' => v = w
    BY <2>1 DEF IInv, LoopsInv
  <2>. QED  BY <2>2, <2>3, <2>4 DEF LoopsInv
<1>5. ProvedInv'
  <2>1. \A identity \in Identities :
           Verified(artifacts', identity) => <<identity, artifacts'[identity].file>> \in proved'
    BY DEF ServerKeeps
  <2>2. inventory' # None => \A identity \in Identities :
           Verified(inventory', identity) => <<identity, inventory'[identity].file>> \in proved'
    BY DEF IInv, ProvedInv, ServerKeeps
  <2>3. \A v \in Uploads : \A r \in loops'[v].full :
           \E file \in Files : <<Full(r), file>> \in proved'
    BY <1>1 DEF IInv, ProvedInv, ServerKeeps
  <2>. QED  BY <2>1, <2>2, <2>3 DEF ProvedInv
<1>6. ClaimInv'
  <2>. SUFFICES ASSUME NEW v \in Uploads, loops'[v].step \in {"transfer", "complete"}
                PROVE  Claimed(v)'
    BY DEF ClaimInv
  <2>1. CASE v = u
    BY <1>1, <2>1
  <2>2. CASE v # u
    <3>1. /\ loops'[v] = loops[v] /\ Claimed(v)
          /\ Flying(v) /\ loops[v].queue # <<>>
      BY <1>1, <2>2 DEF IInv, ClaimInv, LoopsInv, Flying, InFlight
    <3>2. IdentityOf(Current(v)) \in Identities
      BY <3>1, CurrentType
    <3>. QED  BY <3>1, <3>2 DEF ServerKeeps, Claimed, Current, IdentityOf
  <2>. QED  BY <2>1, <2>2
<1>. QED  BY <1>3, <1>4, <1>5, <1>6 DEF IInv

\* Nothing begins and nothing is unproved.
LEMMA NothingBegins ==
  ASSUME IInv, UNCHANGED begun, proved \subseteq proved'
  PROVE  begun' \subseteq Identities /\ DeltasFollowTheirSource'
BY DEF IInv, TypeInv, DeltasFollowTheirSource

\* A loop that is under way, as a record.
LEMMA LoopType ==
  ASSUME IInv, NEW u \in Uploads
  PROVE  /\ loops[u] \in Loops
         /\ \A i \in 1 .. Len(loops[u].queue) :
               Kind[loops[u].queue[i].file] = "full" => loops[u].queue[i].from = 0
         /\ \A v \in loops[u].full : \E file \in Files : <<Full(v), file>> \in proved
BY DEF IInv, TypeInv, LoopsInv, ProvedInv

\* A step that only moves on.
LEMMA MoveKeepsInv ==
  ASSUME IInv, ServerKeeps, NEW u \in Uploads, At(u, "next") \/ Flying(u),
         UNCHANGED <<inventory, card, overrides, bundle, reading, busy>>,
         packages' \in Seq(Rows), RowInv',
         begun' \subseteq Identities, DeltasFollowTheirSource',
         NEW step \in InFlight, Move(u, step), loops[u].queue # <<>>,
         step \in {"transfer", "complete"} => Claimed(u)'
  PROVE  IInv'
<1>. DEFINE new == [loops[u] EXCEPT !.step = step]
<1>1. /\ new \in Loops /\ new.card = loops[u].card /\ new.step = step
      /\ new.queue = loops[u].queue /\ new.full = loops[u].full
  BY LoopType DEF Loops
<1>2. loops' = [loops EXCEPT ![u] = new]
  BY DEF Move, IInv, TypeInv
<1>3. \A i \in 1 .. Len(new.queue) :
         Kind[new.queue[i].file] = "full" => new.queue[i].from = 0
  BY <1>1, LoopType
<1>4. \A v \in new.full : \E file \in Files : <<Full(v), file>> \in proved'
  BY <1>1, LoopType DEF ServerKeeps
<1>5. new.step \notin {"none", "over"}
  BY <1>1 DEF InFlight
<1>. HIDE DEF new
<1>. QED  BY <1>1, <1>2, <1>3, <1>4, <1>5, LoopKeepsInv

\* A loop goes on to its next package, this one verified or failed.
LEMMA GoingOnKeepsInv ==
  ASSUME IInv, ServerKeeps, NEW u \in Uploads, At(u, "next") \/ Flying(u),
         loops[u].queue # <<>>,
         UNCHANGED <<inventory, card, overrides, bundle, reading, busy, begun>>,
         NEW full \in SUBSET Releases,
         \A v \in full : \E file \in Files : <<Full(v), file>> \in proved',
         loops' = [loops EXCEPT ![u].queue = Tail(@), ![u].step = "next", ![u].full = full],
         NEW operation \in {"verified", "failed"}, SetPackageOperation(u, operation),
         operation = "verified" => <<IdentityOf(Current(u)), Current(u).file>> \in proved'
  PROVE  IInv'
<1>. DEFINE new == [loops[u] EXCEPT !.queue = Tail(@), !.step = "next", !.full = full]
<1>1. /\ new \in Loops /\ new.card = loops[u].card /\ new.step = "next"
      /\ new.queue = Tail(loops[u].queue) /\ new.full = full
  <2>1. Tail(loops[u].queue) \in Seq(Entries)
    BY CurrentType
  <2>. QED  BY <2>1, LoopType DEF Loops
<1>2. loops' = [loops EXCEPT ![u] = new]
  BY DEF IInv, TypeInv
<1>3. \A i \in 1 .. Len(new.queue) :
         Kind[new.queue[i].file] = "full" => new.queue[i].from = 0
  BY <1>1, CurrentType
<1>. HIDE DEF new
<1>4. packages' \in Seq(Rows)
  BY RowsKeepType
<1>5. RowInv'
  <2>1. /\ loops'[u] = new
        /\ \A v \in Uploads \ {u} : loops'[v] = loops[v]
    BY <1>2 DEF IInv, TypeInv
  <2>2. Current(u).file \in Files
    BY CurrentType
  <2>. QED  BY <1>1, <2>1, <2>2, RowsStayRight DEF At, ServerKeeps
<1>6. begun' \subseteq Identities /\ DeltasFollowTheirSource'
  BY NothingBegins DEF ServerKeeps
<1>7. new.step \notin {"none", "over"} \cup InFlight
  BY <1>1 DEF InFlight
<1>. QED  BY <1>1, <1>2, <1>3, <1>4, <1>5, <1>6, <1>7, LoopKeepsInv DEF InFlight

-----------------------------------------------------------------------------
\* The steps of a loop.
LEMMA BeginItemStep == ASSUME NEW u \in Uploads, IInv, BeginItem(u) PROVE IInv'
<1>1. /\ At(u, "next") /\ Move(u, "ticket") /\ loops[u].queue # <<>>
      /\ SetPackageOperation(u, "uploading")
      /\ begun' = begun \cup {IdentityOf(Current(u))}
      /\ UNCHANGED <<artifacts, inventory, card, overrides, bundle, reading, busy, proved>>
  BY DEF BeginItem, At
<1>2. ServerKeeps
  BY <1>1, ServerRests
<1>3. packages' \in Seq(Rows)
  BY <1>1, RowsKeepType
<1>4. RowInv'
  <2>1. /\ loops'[u].step = "ticket" /\ loops'[u].queue = loops[u].queue
        /\ loops'[u].card = loops[u].card
        /\ \A v \in Uploads \ {u} : loops'[v] = loops[v]
    BY <1>1, LoopType DEF Move, IInv, TypeInv, Loops
  <2>. QED  BY <1>1, <2>1, RowsStayRight DEF At, InFlight, Current
<1>5. begun' \subseteq Identities /\ DeltasFollowTheirSource'
  <2>1. IdentityOf(Current(u)) \in Identities
    BY <1>1, CurrentType
  <2>2. IdentityOf(Current(u))[1] = "delta" =>
           \E file \in Files : <<Full(IdentityOf(Current(u))[3]), file>> \in proved
    <3>1. /\ IdentityOf(Current(u))[1] = Kind[Current(u).file]
          /\ IdentityOf(Current(u))[3] = Current(u).from
      BY DEF IdentityOf
    <3>2. Kind[Current(u).file] = "full" \/ Current(u).from \in loops[u].full
      BY DEF BeginItem, SourceIsThere
    <3>. QED  BY <3>1, <3>2, LoopType
  <2>. QED  BY <1>1, <2>1, <2>2 DEF IInv, TypeInv, DeltasFollowTheirSource
<1>. QED  BY <1>1, <1>2, <1>3, <1>4, <1>5, MoveKeepsInv DEF InFlight

LEMMA FailItemStep ==
  ASSUME IInv, ServerKeeps, NEW u \in Uploads, At(u, "next") \/ Flying(u),
         loops[u].queue # <<>>, FailItem(u)
  PROVE  IInv'
<1>1. loops' = [loops EXCEPT ![u].queue = Tail(@), ![u].step = "next", ![u].full = loops[u].full]
  BY LoopType DEF FailItem, IInv, TypeInv, Loops
<1>2. loops[u].full \in SUBSET Releases
  BY LoopType DEF Loops
<1>3. \A v \in loops[u].full : \E file \in Files : <<Full(v), file>> \in proved'
  BY LoopType DEF ServerKeeps
<1>. QED  BY <1>1, <1>2, <1>3, GoingOnKeepsInv DEF FailItem

LEMMA NoSourceStep == ASSUME NEW u \in Uploads, IInv, NoSource(u) PROVE IInv'
BY FailItemStep, ServerRests DEF NoSource, At

LEMMA NoTransferStep == ASSUME NEW u \in Uploads, IInv, NoTransfer(u) PROVE IInv'
BY FailItemStep, ServerRests DEF NoTransfer, At, Flying, InFlight

LEMMA NoTicketStep == ASSUME NEW u \in Uploads, IInv, NoTicket(u) PROVE IInv'
<1>1. ServerKeeps
  BY ServerRests, TicketGiven DEF NoTicket
<1>. QED  BY <1>1, FailItemStep DEF NoTicket, At, Flying, InFlight

LEMMA NotCompletedStep == ASSUME NEW u \in Uploads, IInv, NotCompleted(u) PROVE IInv'
<1>1. ServerKeeps
  BY ServerRests, VerdictGiven DEF NotCompleted
<1>. QED  BY <1>1, FailItemStep DEF NotCompleted, At, Flying, InFlight

LEMMA RowsRest ==
  ASSUME IInv, NEW u \in Uploads, UNCHANGED <<packages, card>>, proved \subseteq proved',
         \A v \in Uploads \ {u} : loops'[v] = loops[v],
         loops'[u].card = loops[u].card, loops'[u].queue = loops[u].queue,
         Flying(u) => Flying(u)', Active(u) => Active(u)'
  PROVE  RowInv' /\ packages' \in Seq(Rows)
<1>. SUFFICES ASSUME NEW i \in 1 .. Len(packages)
              PROVE  Uploaded(packages[i])' /\ Proved(packages[i])'
  BY DEF RowInv, IInv, TypeInv
<1>1. \A v \in Uploads : Active(v) /\ Flying(v) =>
         Active(v)' /\ Flying(v)' /\ Current(v)' = Current(v)
  BY DEF Active, Flying, Current
<1>2. Uploaded(packages[i]) /\ Proved(packages[i])
  BY DEF IInv, RowInv
<1>3. Uploaded(packages[i])'
  BY <1>1, <1>2 DEF Uploaded
<1>4. Proved(packages[i])'
  BY <1>2 DEF Proved
<1>. QED  BY <1>3, <1>4

\* What Move does to its loop, while an upload of a package is under way.
LEMMA MoveOn ==
  ASSUME IInv, NEW u \in Uploads, NEW step \in InFlight, Move(u, step), UNCHANGED card, Flying(u)
  PROVE  /\ loops'[u].card = loops[u].card /\ loops'[u].queue = loops[u].queue
         /\ Flying(u)' /\ (Active(u) => Active(u)')
         /\ \A v \in Uploads \ {u} : loops'[v] = loops[v]
BY LoopType DEF Move, IInv, TypeInv, Loops, Flying, Active, InFlight

LEMMA TicketStep == ASSUME NEW u \in Uploads, IInv, Ticket(u) PROVE IInv'
<1>1. /\ Flying(u) /\ loops[u].queue # <<>> /\ Move(u, "transfer") /\ At(u, "ticket")
      /\ UNCHANGED <<inventory, card, picked, begun, proved>>
  BY DEF Ticket, At, Flying, InFlight
<1>2. /\ ServerKeeps
      /\ artifacts'[IdentityOf(Current(u))] = [status |-> "uploading", file |-> Current(u).file]
  BY <1>1, TicketGiven DEF Ticket
<1>3. /\ loops'[u].card = loops[u].card /\ loops'[u].queue = loops[u].queue
      /\ Flying(u)' /\ (Active(u) => Active(u)')
      /\ \A v \in Uploads \ {u} : loops'[v] = loops[v]
  BY <1>1, MoveOn DEF InFlight
<1>4. Claimed(u)'
  <2>1. Current(u)' = Current(u) /\ Current(u).file \in Files
    BY <1>1, <1>3, CurrentType DEF Current
  <2>. QED  BY <1>2, <2>1 DEF Claimed, IdentityOf, Artifact
<1>5. RowInv' /\ packages' \in Seq(Rows)
  BY <1>1, <1>3, RowsRest DEF picked
<1>6. begun' \subseteq Identities /\ DeltasFollowTheirSource'
  BY <1>1, NothingBegins
<1>. QED  BY <1>1, <1>2, <1>4, <1>5, <1>6, MoveKeepsInv DEF InFlight, picked

LEMMA TransferStep == ASSUME NEW u \in Uploads, IInv, Transfer(u) PROVE IInv'
<1>1. /\ Flying(u) /\ loops[u].queue # <<>> /\ Move(u, "complete")
      /\ loops[u].step = "transfer"
      /\ UNCHANGED <<artifacts, inventory, card, picked, begun, proved>>
  BY DEF Transfer, At, Flying, InFlight
<1>2. ServerKeeps
  BY <1>1, ServerRests
<1>3. /\ loops'[u].card = loops[u].card /\ loops'[u].queue = loops[u].queue
      /\ Flying(u)' /\ (Active(u) => Active(u)')
      /\ \A v \in Uploads \ {u} : loops'[v] = loops[v]
  BY <1>1, MoveOn DEF InFlight
<1>4. Claimed(u)'
  <2>1. Claimed(u)
    BY <1>1 DEF IInv, ClaimInv
  <2>. QED  BY <1>1, <1>3, <2>1 DEF Claimed, IdentityOf, Current
<1>5. RowInv' /\ packages' \in Seq(Rows)
  BY <1>1, <1>3, RowsRest DEF picked
<1>6. begun' \subseteq Identities /\ DeltasFollowTheirSource'
  BY <1>1, NothingBegins
<1>. QED  BY <1>1, <1>2, <1>4, <1>5, <1>6, MoveKeepsInv DEF InFlight, picked

LEMMA CompleteStep == ASSUME NEW u \in Uploads, IInv, Complete(u) PROVE IInv'
<1>. DEFINE full == IF Kind[Current(u).file] = "full"
                    THEN loops[u].full \cup {ReleaseOf[Current(u).file]} ELSE loops[u].full
<1>1. /\ At(u, "complete") /\ Flying(u) /\ loops[u].queue # <<>>
      /\ Verdict(u, "verified") /\ SetPackageOperation(u, "verified")
      /\ UNCHANGED <<inventory, card, overrides, bundle, reading, busy, begun>>
  BY DEF Complete, At, Flying, InFlight
<1>2. ServerKeeps /\ <<IdentityOf(Current(u)), Current(u).file>> \in proved'
  BY <1>1, VerdictGiven
<1>3. /\ Current(u) \in Entries /\ Current(u).file \in Files
      /\ Kind[Current(u).file] = "full" => Current(u).from = 0
  BY <1>1, CurrentType
<1>4. full \in SUBSET Releases
  BY <1>3, LoopType DEF Loops, Releases
<1>5. \A v \in full : \E file \in Files : <<Full(v), file>> \in proved'
  <2>1. \A v \in loops[u].full : \E file \in Files : <<Full(v), file>> \in proved'
    BY <1>2, LoopType DEF ServerKeeps
  <2>2. Kind[Current(u).file] = "full" =>
           <<Full(ReleaseOf[Current(u).file]), Current(u).file>> \in proved'
    BY <1>2, <1>3, EntryType
  <2>. QED  BY <1>3, <2>1, <2>2
<1>6. loops' = [loops EXCEPT ![u].queue = Tail(@), ![u].step = "next", ![u].full = full]
  BY LoopType DEF Complete, IInv, TypeInv, Loops
<1>. HIDE DEF full
<1>. QED  BY <1>1, <1>2, <1>4, <1>5, <1>6, GoingOnKeepsInv

\* The end of a batch sets its own card free, and no other.
LEMMA AllTriedStep == ASSUME NEW u \in Uploads, IInv, AllTried(u) PROVE IInv'
<1>1. /\ loops[u].step = "next" /\ loops[u].queue = <<>> /\ Move(u, "over")
      /\ inventory' \in {inventory, artifacts}
      /\ busy' = IF loops[u].card = card THEN "" ELSE busy
      /\ UNCHANGED <<artifacts, card, packages, overrides, bundle, reading, begun, proved>>
  BY DEF AllTried
<1>2. /\ loops' \in [Uploads -> Loops] /\ loops'[u].step = "over"
      /\ loops'[u].card = loops[u].card /\ loops'[u].queue = loops[u].queue
      /\ loops'[u].full = loops[u].full
      /\ \A v \in Uploads \ {u} : loops'[v] = loops[v]
  <2>1. [loops[u] EXCEPT !.step = "over"] \in Loops
    BY LoopType DEF Loops
  <2>. QED  BY <1>1, <2>1 DEF Move, IInv, TypeInv, Loops
<1>3. TypeInv'
  BY <1>1, <1>2 DEF IInv, TypeInv
<1>4. \A v \in Uploads \ {u} : (Active(v)' <=> Active(v)) /\ (Flying(v)' <=> Flying(v))
                               /\ Current(v)' = Current(v)
  BY <1>1, <1>2 DEF Active, Flying, Current
<1>5. ~Active(u)' /\ ~Flying(u)' /\ ~Flying(u) /\ (Active(u) <=> loops[u].card = card)
  BY <1>1, <1>2 DEF Active, Flying, InFlight
<1>6. LoopsInv'
  <2>1. \A v \in Uploads :
           /\ loops'[v].card <= card'
           /\ \A i \in 1 .. Len(loops'[v].queue) :
                 Kind[loops'[v].queue[i].file] = "full" => loops'[v].queue[i].from = 0
           /\ Flying(v)' => loops'[v].queue # <<>>
    <3>. TAKE v \in Uploads
    <3>1. loops'[v].card = loops[v].card /\ loops'[v].queue = loops[v].queue
      BY <1>2
    <3>2. Flying(v)' => Flying(v)
      BY <1>4, <1>5
    <3>. QED  BY <1>1, <3>1, <3>2 DEF IInv, LoopsInv
  <2>2. \A v, w \in Uploads : Active(v)' /\ Active(w)' => v = w
    BY <1>4, <1>5 DEF IInv, LoopsInv
  <2>3. busy' = "uploading" <=> \E v \in Uploads : Active(v)'
    BY <1>1, <1>4, <1>5 DEF IInv, LoopsInv
  <2>. QED  BY <2>1, <2>2, <2>3 DEF LoopsInv
<1>7. ProvedInv' /\ DeltasFollowTheirSource'
  <2>1. \A v \in Uploads : loops'[v].full = loops[v].full
    BY <1>2
  <2>2. /\ \A identity \in Identities :
              Verified(artifacts', identity) => <<identity, artifacts'[identity].file>> \in proved'
        /\ inventory' # None => \A identity \in Identities :
              Verified(inventory', identity) => <<identity, inventory'[identity].file>> \in proved'
    BY <1>1 DEF IInv, ProvedInv
  <2>3. \A v \in Uploads : \A r \in loops'[v].full :
           \E file \in Files : <<Full(r), file>> \in proved'
    BY <1>1, <2>1 DEF IInv, ProvedInv
  <2>. QED  BY <1>1, <2>2, <2>3 DEF IInv, ProvedInv, DeltasFollowTheirSource
<1>8. ClaimInv'
  <2>. SUFFICES ASSUME NEW v \in Uploads, loops'[v].step \in {"transfer", "complete"}
                PROVE  Claimed(v)'
    BY DEF ClaimInv
  <2>1. v # u /\ loops'[v] = loops[v]
    BY <1>2
  <2>. QED  BY <1>1, <2>1 DEF IInv, ClaimInv, Claimed, Current
<1>9. RowInv'
  <2>1. \A i \in 1 .. Len(packages) : Uploaded(packages[i]) /\ Proved(packages[i])
    BY DEF IInv, RowInv
  <2>2. \A i \in 1 .. Len(packages) : Uploaded(packages[i])'
    <3>. SUFFICES ASSUME NEW i \in 1 .. Len(packages), packages[i].operation = "uploading"
                  PROVE  \E v \in Uploads :
                            Active(v)' /\ Flying(v)' /\ Current(v)'.file = packages[i].file
      BY <1>1 DEF Uploaded
    <3>1. PICK v \in Uploads : Active(v) /\ Flying(v) /\ Current(v).file = packages[i].file
      BY <2>1 DEF Uploaded
    <3>2. v # u
      BY <1>5, <3>1
    <3>. QED  BY <1>4, <3>1, <3>2
  <2>3. \A i \in 1 .. Len(packages) : Proved(packages[i])'
    BY <1>1, <2>1 DEF Proved
  <2>. QED  BY <1>1, <2>2, <2>3 DEF RowInv
<1>. QED  BY <1>3, <1>6, <1>7, <1>8, <1>9 DEF IInv

-----------------------------------------------------------------------------
\* The steps of the administrator and of the server's other clients.
LEMMA CardKeepsInv ==
  ASSUME IInv, UNCHANGED <<artifacts, card, loops, begun, proved>>,
         inventory' \in {inventory, artifacts},
         packages' \in Seq(Rows), overrides' \in [Files -> Releases \cup {0}],
         bundle' \in Bundles \cup {None}, reading' \subseteq Bundles,
         busy' \in {"", "analyzing", "uploading"},
         busy' = "uploading" <=> busy = "uploading",
         \/ \A i \in 1 .. Len(packages') : packages'[i].operation = "idle"
         \/ /\ Len(packages') = Len(packages)
            /\ \A i \in 1 .. Len(packages) : /\ packages'[i].file = packages[i].file
                                             /\ packages'[i].operation = packages[i].operation
  PROVE  IInv'
<1>1. TypeInv'
  BY DEF IInv, TypeInv
<1>2. LoopsInv'
  <2>1. \A u \in Uploads : (Active(u)' <=> Active(u)) /\ (Flying(u)' <=> Flying(u))
    BY DEF Active, Flying
  <2>. QED  BY <2>1 DEF IInv, LoopsInv
<1>3. ProvedInv'
  BY DEF IInv, ProvedInv
<1>4. ClaimInv' /\ DeltasFollowTheirSource'
  BY DEF IInv, ClaimInv, Claimed, Current, DeltasFollowTheirSource
<1>5. RowInv'
  <2>. SUFFICES ASSUME NEW i \in 1 .. Len(packages')
                PROVE  Uploaded(packages[i])' /\ Proved(packages[i])'
    BY DEF RowInv
  <2>1. CASE packages'[i].operation = "idle"
    BY <2>1 DEF Uploaded, Proved
  <2>2. CASE packages'[i].operation # "idle"
    <3>1. /\ packages'[i].file = packages[i].file
          /\ packages'[i].operation = packages[i].operation
          /\ Uploaded(packages[i]) /\ Proved(packages[i])
      BY <2>2 DEF IInv, RowInv
    <3>2. Uploaded(packages[i])'
      BY <3>1 DEF Uploaded, Active, Flying, Current
    <3>3. Proved(packages[i])'
      BY <3>1 DEF Proved
    <3>. QED  BY <3>2, <3>3
  <2>. QED  BY <2>1, <2>2
<1>. QED  BY <1>1, <1>2, <1>3, <1>4, <1>5 DEF IInv

LEMMA InventoryArrivesStep == IInv /\ InventoryArrives => IInv'
BY CardKeepsInv DEF InventoryArrives, picked, IInv, TypeInv

LEMMA ChoosePackagesStep ==
  ASSUME NEW chosen \in Selections, IInv, ChoosePackages(chosen) PROVE IInv'
<1>1. chosen \in Seq(Files) /\ Len(chosen) \in Nat
  BY FilesAssumption
<1>2. packages' = [i \in 1 .. Len(chosen) |->
                     [file |-> chosen[i], metadata |-> "waiting", operation |-> "idle"]]
  BY DEF ChoosePackages
<1>3. \A i \in 1 .. Len(chosen) :
         [file |-> chosen[i], metadata |-> "waiting", operation |-> "idle"] \in Rows
  BY <1>1 DEF Rows
<1>4. packages' \in Seq(Rows) /\ Len(packages') = Len(chosen)
  BY <1>1, <1>2, <1>3
<1>5. \A i \in 1 .. Len(packages') : packages'[i].operation = "idle"
  BY <1>2, <1>4
<1>6. overrides' \in [Files -> Releases \cup {0}]
  BY DEF ChoosePackages
<1>. QED  BY <1>4, <1>5, <1>6, CardKeepsInv DEF ChoosePackages, IInv, TypeInv

LEMMA InspectStep == IInv /\ Inspect => IInv'
<1>. SUFFICES ASSUME IInv, Inspect PROVE IInv'
  OBVIOUS
<1>1. PICK i \in 1 .. Len(packages) :
        /\ \E metadata \in {"read", "bad"} :
              packages' = [packages EXCEPT ![i].metadata = metadata]
        /\ busy' = IF i = Len(packages) THEN "" ELSE busy
  BY DEF Inspect
<1>2. PICK metadata \in {"read", "bad"} : packages' = [packages EXCEPT ![i].metadata = metadata]
  BY <1>1
<1>3. packages \in Seq(Rows) /\ packages[i] \in Rows
  <2>1. packages \in Seq(Rows)
    BY DEF IInv, TypeInv
  <2>. QED  BY <2>1
<1>4. /\ [packages[i] EXCEPT !.metadata = metadata] \in Rows
      /\ [packages[i] EXCEPT !.metadata = metadata].file = packages[i].file
      /\ [packages[i] EXCEPT !.metadata = metadata].operation = packages[i].operation
  BY <1>3 DEF Rows
<1>5. /\ packages' \in Seq(Rows) /\ Len(packages') = Len(packages)
      /\ \A j \in 1 .. Len(packages) :
            packages'[j] = IF j = i THEN [packages[i] EXCEPT !.metadata = metadata] ELSE packages[j]
  <2>1. packages' = [packages EXCEPT ![i] = [packages[i] EXCEPT !.metadata = metadata]]
    BY <1>2, <1>3
  <2>. QED  BY <1>3, <1>4, <2>1, ExceptSeq
<1>6. \A j \in 1 .. Len(packages) : /\ packages'[j].file = packages[j].file
                                   /\ packages'[j].operation = packages[j].operation
  BY <1>4, <1>5
<1>7. busy' \in {"", "analyzing", "uploading"} /\ busy' # "uploading" /\ busy # "uploading"
  BY <1>1 DEF Inspect
<1>. QED  BY <1>5, <1>6, <1>7, CardKeepsInv DEF Inspect, IInv, TypeInv

LEMMA ChooseSigningBundleStep ==
  ASSUME NEW signed \in Bundles, IInv, ChooseSigningBundle(signed) PROVE IInv'
BY CardKeepsInv DEF ChooseSigningBundle, IInv, TypeInv

LEMMA BundleReadStep == ASSUME NEW signed \in Bundles, IInv, BundleRead(signed) PROVE IInv'
BY CardKeepsInv DEF BundleRead, IInv, TypeInv

LEMMA ChooseDeltaSourceStep ==
  ASSUME NEW file \in Files, IInv, ChooseDeltaSource(file) PROVE IInv'
<1>1. overrides' \in [Files -> Releases \cup {0}]
  BY SourcesAreReleases DEF ChooseDeltaSource, IInv, TypeInv
<1>. QED  BY <1>1, CardKeepsInv DEF ChooseDeltaSource, IInv, TypeInv

LEMMA EmptyCard ==
  ASSUME Empty
  PROVE  /\ packages' \in Seq(Rows) /\ Len(packages') = 0
         /\ overrides' \in [Files -> Releases \cup {0}]
         /\ bundle' \in Bundles \cup {None} /\ busy' = ""
<1>1. packages' = <<>> /\ overrides' = [file \in Files |-> 0] /\ bundle' = None /\ busy' = ""
  BY DEF Empty
<1>2. packages' \in Seq(Rows) /\ Len(packages') = 0
  <2>1. packages' = <<>>
    BY <1>1
  <2>. QED  BY <2>1
<1>3. overrides' \in [Files -> Releases \cup {0}]
  BY <1>1
<1>. QED  BY <1>1, <1>2, <1>3

LEMMA ResetStep == IInv /\ Reset => IInv'
<1>. SUFFICES ASSUME IInv, Reset PROVE IInv'
  OBVIOUS
<1>1. /\ packages' \in Seq(Rows) /\ overrides' \in [Files -> Releases \cup {0}]
      /\ bundle' \in Bundles \cup {None} /\ busy' = "" /\ busy = ""
      /\ UNCHANGED <<artifacts, inventory, card, reading, loops, begun, proved>>
  BY EmptyCard DEF Reset
<1>2. 1 .. Len(packages') = {}
  <2>1. Len(packages') = 0
    BY EmptyCard DEF Reset
  <2>. QED  BY <2>1
<1>3. \A i \in 1 .. Len(packages') : packages'[i].operation = "idle"
  BY <1>2
<1>4. reading' \subseteq Bundles
  BY <1>1 DEF IInv, TypeInv
<1>. QED  BY <1>1, <1>3, <1>4, CardKeepsInv

\* A new card knows nothing of the uploads of the one before.
LEMMA RemountStep == IInv /\ Remount => IInv'
<1>. SUFFICES ASSUME IInv, Remount PROVE IInv'
  OBVIOUS
<1>1. /\ card' = card + 1 /\ card' \in Uploads /\ card \in Nat
      /\ reading' = {} /\ UNCHANGED <<artifacts, inventory, loops, begun, proved>>
  <2>1. /\ card' = card + 1 /\ card < MaxUploads
        /\ reading' = {} /\ UNCHANGED <<artifacts, inventory, loops, begun, proved>>
    BY DEF Remount
  <2>2. card \in 1 .. MaxUploads
    BY DEF IInv, TypeInv, Uploads
  <2>. QED  BY <2>1, <2>2, UploadsAssumption DEF Uploads
<1>2. /\ packages' \in Seq(Rows) /\ 1 .. Len(packages') = {}
      /\ overrides' \in [Files -> Releases \cup {0}]
      /\ bundle' \in Bundles \cup {None} /\ busy' = ""
  <2>1. Len(packages') = 0
    BY EmptyCard DEF Remount
  <2>2. 1 .. Len(packages') = {}
    BY <2>1
  <2>. QED  BY <2>2, EmptyCard DEF Remount
<1>3. TypeInv'
  BY <1>1, <1>2 DEF IInv, TypeInv
<1>4. \A u \in Uploads : loops[u].card <= card /\ loops[u].card \in Nat
  BY LoopType DEF IInv, LoopsInv, Loops
<1>5. \A u \in Uploads : loops'[u].card <= card' /\ ~Active(u)'
  BY <1>1, <1>4 DEF Active
<1>6. LoopsInv'
  <2>1. \A u \in Uploads :
           /\ \A i \in 1 .. Len(loops'[u].queue) :
                 Kind[loops'[u].queue[i].file] = "full" => loops'[u].queue[i].from = 0
           /\ Flying(u)' => loops'[u].queue # <<>>
    BY <1>1 DEF IInv, LoopsInv, Flying
  <2>. QED  BY <1>2, <1>5, <2>1 DEF LoopsInv
<1>7. ProvedInv' /\ ClaimInv' /\ DeltasFollowTheirSource'
  BY <1>1 DEF IInv, ProvedInv, ClaimInv, Claimed, Current, DeltasFollowTheirSource
<1>8. RowInv'
  BY <1>2 DEF RowInv
<1>. QED  BY <1>3, <1>6, <1>7, <1>8 DEF IInv

LEMMA ArchiveElsewhereStep ==
  ASSUME NEW identity \in Identities, IInv, ArchiveElsewhere(identity) PROVE IInv'
<1>1. artifacts[identity] \in Artifact
  BY DEF ArchiveElsewhere, Verified, IInv, TypeInv, Stock
<1>2. /\ [artifacts[identity] EXCEPT !.status = "archived"] \in Artifact
      /\ [artifacts[identity] EXCEPT !.status = "archived"].status = "archived"
      /\ [artifacts[identity] EXCEPT !.status = "archived"].file = artifacts[identity].file
  BY <1>1 DEF Artifact
<1>3. /\ artifacts' \in Stock
      /\ artifacts'[identity] = [artifacts[identity] EXCEPT !.status = "archived"]
      /\ \A i \in Identities \ {identity} : artifacts'[i] = artifacts[i]
  BY <1>2 DEF ArchiveElsewhere, IInv, TypeInv, Stock
<1>4. UNCHANGED <<inventory, card, picked, loops, begun, proved>>
  BY DEF ArchiveElsewhere
<1>5. TypeInv'
  BY <1>3, <1>4 DEF IInv, TypeInv, picked
<1>6. LoopsInv' /\ RowInv' /\ DeltasFollowTheirSource'
  BY <1>4 DEF IInv, LoopsInv, RowInv, Uploaded, Proved, Active, Flying, Current,
              DeltasFollowTheirSource, picked
<1>7. ProvedInv'
  <2>1. ASSUME NEW i \in Identities, Verified(artifacts', i)
        PROVE  <<i, artifacts'[i].file>> \in proved'
    <3>1. i # identity
      BY <1>2, <1>3, <2>1 DEF Verified
    <3>. QED  BY <1>3, <1>4, <2>1, <3>1 DEF IInv, ProvedInv, Verified
  <2>. QED  BY <1>4, <2>1 DEF IInv, ProvedInv
<1>8. ClaimInv'
  <2>. SUFFICES ASSUME NEW u \in Uploads, loops[u].step \in {"transfer", "complete"}
                PROVE  Claimed(u)'
    BY <1>4 DEF ClaimInv
  <2>1. Claimed(u) /\ loops[u].queue # <<>>
    BY DEF IInv, ClaimInv, LoopsInv, Flying, InFlight
  <2>2. IdentityOf(Current(u)) \in Identities
    BY <2>1, CurrentType
  <2>3. /\ artifacts'[IdentityOf(Current(u))] \in Artifact
        /\ artifacts'[IdentityOf(Current(u))].file = artifacts[IdentityOf(Current(u))].file
    BY <1>2, <1>3, <2>1, <2>2 DEF Claimed
  <2>. QED  BY <1>4, <2>1, <2>3 DEF Claimed, Current
<1>. QED  BY <1>5, <1>6, <1>7, <1>8 DEF IInv

-----------------------------------------------------------------------------
\* A batch begins: its packages in their order, each with the source its row
\* shows, and what the card knows of full packages.
LEMMA UploadAllStep == ASSUME NEW u \in Uploads, IInv, UploadAll(u) PROVE IInv'
<1>1. /\ busy = "" /\ busy' = "uploading" /\ loops[u] = NoLoop
      /\ UNCHANGED <<artifacts, inventory, card, packages, overrides, bundle, reading, begun, proved>>
  BY DEF UploadAll, Ready
<1>. DEFINE known == {v \in Releases : Verified(Known, Full(v))}
<1>2. PICK ordered \in SetToSeqs(Uploadable) :
        loops' = [loops EXCEPT ![u] =
                     [card |-> card, queue |-> Queued(ordered), step |-> "next", full |-> known]]
  BY DEF UploadAll
<1>3. ordered \in Seq(Files)
  <2>1. Uploadable \subseteq Files
    <3>1. packages \in Seq(Rows)
      BY DEF IInv, TypeInv
    <3>2. \A i \in DOMAIN packages : packages[i] \in Rows
      BY <3>1
    <3>3. \A row \in Rows : row.file \in Files
      BY DEF Rows
    <3>. QED  BY <3>2, <3>3 DEF Uploadable, Chosen, ToSet
  <2>2. Cardinality(Uploadable) \in Nat
    BY <2>1, FilesAssumption, FS_Subset, FS_CardinalityType
  <2>3. ordered \in [1 .. Cardinality(Uploadable) -> Files]
    BY <2>1 DEF SetToSeqs
  <2>. QED  BY <2>2, <2>3
<1>4. /\ Queued(ordered) \in Seq(Entries)
      /\ \A i \in 1 .. Len(Queued(ordered)) :
            Kind[Queued(ordered)[i].file] = "full" => Queued(ordered)[i].from = 0
  <2>. DEFINE entry(i) == [file |-> ordered[i], from |-> DeltaFrom(ordered[i])]
  <2>1. Len(ordered) \in Nat
    BY <1>3
  <2>2. \A i \in 1 .. Len(ordered) :
           entry(i) \in Entries /\ (Kind[entry(i).file] = "full" => entry(i).from = 0)
    BY <1>3, IdentityType DEF Entries
  <2>3. Queued(ordered) = [i \in 1 .. Len(ordered) |-> entry(i)]
    BY DEF Queued
  <2>. HIDE DEF entry
  <2>. QED  BY <2>1, <2>2, <2>3
<1>. DEFINE new == [card |-> card, queue |-> Queued(ordered), step |-> "next", full |-> known]
<1>5. /\ new \in Loops /\ new.card = card /\ new.queue = Queued(ordered)
      /\ new.step = "next" /\ new.full = known
  <2>1. card \in 0 .. MaxUploads
    <3>1. card \in 1 .. MaxUploads
      BY DEF IInv, TypeInv, Uploads
    <3>. QED  BY <3>1, UploadsAssumption
  <2>2. known \in SUBSET Releases
    OBVIOUS
  <2>. HIDE DEF known
  <2>. QED  BY <1>4, <2>1, <2>2 DEF Loops
<1>6. \A v \in known : \E file \in Files : <<Full(v), file>> \in proved
  <2>. TAKE v \in known
  <2>1. Full(v) \in Identities /\ Verified(Known, Full(v))
    BY FullIsAnIdentity
  <2>2. inventory # None /\ Known = inventory
    BY <2>1 DEF Known, NoneYet, Verified
  <2>3. <<Full(v), inventory[Full(v)].file>> \in proved
    BY <2>1, <2>2 DEF IInv, ProvedInv
  <2>. QED  BY <2>3 DEF IInv, TypeInv
<1>7. /\ loops' \in [Uploads -> Loops] /\ loops'[u] = new
      /\ \A v \in Uploads \ {u} : loops'[v] = loops[v]
  BY <1>2, <1>5 DEF IInv, TypeInv
<1>. HIDE DEF new, known
<1>8. TypeInv'
  BY <1>1, <1>7 DEF IInv, TypeInv
<1>9. /\ \A v \in Uploads : ~Active(v)
      /\ \A v \in Uploads \ {u} : ~Active(v)' /\ (Flying(v)' <=> Flying(v))
      /\ Active(u)' /\ ~Flying(u)' /\ ~Flying(u)
  <2>1. \A v \in Uploads : ~Active(v)
    BY <1>1 DEF IInv, LoopsInv
  <2>2. \A v \in Uploads \ {u} : ~Active(v)' /\ (Flying(v)' <=> Flying(v))
    BY <1>1, <1>7, <2>1 DEF Active, Flying
  <2>3. Active(u)' /\ ~Flying(u)' /\ ~Flying(u)
    <3>1. loops'[u].card = card' /\ loops'[u].step = "next"
      BY <1>1, <1>5, <1>7
    <3>2. loops[u].step = "none"
      <4>1. loops[u] = NoLoop
        BY <1>1
      <4>2. NoLoop.step = "none"
        BY DEF NoLoop
      <4>. QED  BY <4>1, <4>2
    <3>. QED  BY <3>1, <3>2 DEF Active, Flying, InFlight
  <2>. QED  BY <2>1, <2>2, <2>3
<1>10. LoopsInv'
  <2>1. ASSUME NEW v \in Uploads
        PROVE  /\ loops'[v].card <= card'
               /\ \A i \in 1 .. Len(loops'[v].queue) :
                     Kind[loops'[v].queue[i].file] = "full" => loops'[v].queue[i].from = 0
               /\ Flying(v)' => loops'[v].queue # <<>>
    <3>1. CASE v = u
      <4>1. loops'[v].card <= card'
        <5>1. loops'[v].card = card
          BY <1>5, <1>7, <3>1
        <5>2. card \in 1 .. MaxUploads
          BY DEF IInv, TypeInv, Uploads
        <5>3. card <= card
          BY <5>2, UploadsAssumption
        <5>. QED  BY <1>1, <5>1, <5>3
      <4>2. loops'[v].queue = Queued(ordered)
        BY <1>5, <1>7, <3>1
      <4>. QED  BY <1>4, <1>9, <3>1, <4>1, <4>2
    <3>2. CASE v # u
      <4>1. loops'[v] = loops[v] /\ (Flying(v)' <=> Flying(v)) /\ card' = card
        BY <1>1, <1>7, <1>9, <3>2
      <4>. QED  BY <4>1 DEF IInv, LoopsInv
    <3>. QED  BY <3>1, <3>2
  <2>2. \A v, w \in Uploads : Active(v)' /\ Active(w)' => v = w
    BY <1>9
  <2>3. busy' = "uploading" <=> \E v \in Uploads : Active(v)'
    BY <1>1, <1>9
  <2>. QED  BY <2>1, <2>2, <2>3 DEF LoopsInv
<1>11. ProvedInv' /\ DeltasFollowTheirSource'
  <2>1. \A v \in Uploads : \A r \in loops'[v].full :
           \E file \in Files : <<Full(r), file>> \in proved
    BY <1>5, <1>6, <1>7 DEF IInv, ProvedInv
  <2>. QED  BY <1>1, <2>1 DEF IInv, ProvedInv, DeltasFollowTheirSource
<1>12. ClaimInv'
  <2>. SUFFICES ASSUME NEW v \in Uploads, loops'[v].step \in {"transfer", "complete"}
                PROVE  Claimed(v)'
    BY DEF ClaimInv
  <2>1. v # u
    BY <1>5, <1>7
  <2>. QED  BY <1>1, <1>7, <2>1 DEF IInv, ClaimInv, Claimed, Current
<1>13. RowInv'
  BY <1>1, <1>9 DEF IInv, RowInv, Uploaded, Proved
<1>. QED  BY <1>8, <1>10, <1>11, <1>12, <1>13 DEF IInv

LEMMA StutteringStep == IInv /\ UNCHANGED vars => IInv'
<1>. SUFFICES ASSUME IInv, UNCHANGED vars PROVE IInv'
  OBVIOUS
<1>1. TypeInv' /\ LoopsInv' /\ ProvedInv'
  BY DEF IInv, TypeInv, LoopsInv, ProvedInv, Active, Flying, vars, picked
<1>2. ClaimInv' /\ RowInv' /\ DeltasFollowTheirSource'
  BY DEF IInv, ClaimInv, Claimed, Current, RowInv, Uploaded, Proved, Active, Flying,
         DeltasFollowTheirSource, vars, picked
<1>. QED  BY <1>1, <1>2 DEF IInv

LEMMA NextIInv == IInv /\ [Next]_vars => IInv'
<1>. SUFFICES ASSUME IInv, Next PROVE IInv'
  BY StutteringStep
<1>1. ASSUME NEW u \in Uploads, UploadAll(u) \/ UploadStep(u) PROVE IInv'
  BY <1>1, UploadAllStep, BeginItemStep, NoSourceStep, TicketStep, NoTicketStep, TransferStep,
     NoTransferStep, CompleteStep, NotCompletedStep, AllTriedStep DEF UploadStep
<1>2. ASSUME NEW signed \in Bundles, ChooseSigningBundle(signed) \/ BundleRead(signed)
      PROVE  IInv'
  BY <1>2, ChooseSigningBundleStep, BundleReadStep
<1>. QED
  BY <1>1, <1>2, InventoryArrivesStep, ChoosePackagesStep, InspectStep, ChooseDeltaSourceStep,
     ResetStep, RemountStep, ArchiveElsewhereStep DEF Next

LEMMA Invariance == Spec => []IInv
BY InitIInv, NextIInv, PTL DEF Spec

-----------------------------------------------------------------------------
\* The card keeps its shape, is marked busy exactly while uploadAll() of its own
\* mount is under way, and what completeReleaseArtifactUpload reports as
\* verified was proved with the file the ticket was asked for.
THEOREM TheCardKeepsItsShape == Spec => []TypeOK
<1>1. IInv => TypeOK
  <2>. SUFFICES ASSUME IInv PROVE TypeOK
    OBVIOUS
  <2>1. \A item \in ToSet(packages) :
           /\ item.file \in Files
           /\ item.metadata \in {"waiting", "read", "bad"}
           /\ item.operation \in {"idle", "uploading", "verified", "failed"}
    <3>1. packages \in Seq(Rows)
      BY DEF IInv, TypeInv
    <3>2. \A i \in DOMAIN packages : packages[i] \in Rows
      BY <3>1
    <3>. QED  BY <3>2 DEF ToSet, Rows
  <2>2. (busy = "uploading") =
           \E u \in Uploads : loops[u].card = card /\ loops[u].step # "over"
    BY DEF IInv, LoopsInv, Active
  <2>3. inventory = None \/ DOMAIN inventory = Identities
    BY DEF IInv, TypeInv, Stock
  <2>4. artifacts \in [Identities -> {None} \cup Artifact]
    BY DEF IInv, TypeInv, Stock
  <2>. QED  BY <2>1, <2>2, <2>3, <2>4 DEF IInv, TypeInv, ProvedInv, TypeOK
<1>. QED  BY <1>1, Invariance, PTL

\* uploadAll() asks for no ticket of a delta whose source was not verified.
THEOREM DeltasAlwaysFollowTheirSource == Spec => []DeltasFollowTheirSource
<1>1. IInv => DeltasFollowTheirSource
  BY DEF IInv
<1>. QED  BY <1>1, Invariance, PTL

\* What PackageState says of a package in a row of the card is true of what the
\* server did with it, whatever cards, lists and bundles came in between.
THEOREM RowsAlwaysTellTheTruth == Spec => []RowsTellTheTruth
<1>1. IInv => RowsTellTheTruth
  <2>. SUFFICES ASSUME IInv, NEW item \in ToSet(packages)
                PROVE  /\ PackageState(item) = "Verified" =>
                             \E proof \in proved : /\ proof[2] = item.file
                                                  /\ proof[1][1] = Kind[item.file]
                                                  /\ proof[1][2] = ReleaseOf[item.file]
                       /\ PackageState(item) = "Already verified" =>
                             <<Identity(item.file), item.file>> \in proved
                       /\ PackageState(item) = "Uploading" => busy = "uploading"
    BY DEF RowsTellTheTruth
  <2>1. PICK i \in 1 .. Len(packages) : item = packages[i]
    <3>1. packages \in Seq(Rows)
      BY DEF IInv, TypeInv
    <3>. QED  BY <3>1 DEF ToSet
  <2>2. item \in Rows /\ Uploaded(item) /\ Proved(item)
    <3>1. packages \in Seq(Rows)
      BY DEF IInv, TypeInv
    <3>. QED  BY <2>1, <3>1 DEF IInv, RowInv
  <2>3. item.operation \in {"idle", "uploading", "verified", "failed"} /\ item.file \in Files
    BY <2>2 DEF Rows
  <2>4. CASE item.operation = "uploading"
    <3>1. PackageState(item) = "Uploading"
      BY <2>4 DEF PackageState
    <3>2. busy = "uploading"
      BY <2>2, <2>4 DEF Uploaded, IInv, LoopsInv
    <3>. QED  BY <3>1, <3>2
  <2>5. CASE item.operation = "verified"
    <3>1. PackageState(item) = "Verified"
      BY <2>5 DEF PackageState
    <3>. QED  BY <2>2, <2>5, <3>1 DEF Proved
  <2>6. CASE item.operation = "failed"
    BY <2>6 DEF PackageState
  <2>7. CASE item.operation = "idle" /\ ExistingArtifact(item.file)
    <3>1. PackageState(item) = "Already verified"
      BY <2>7 DEF PackageState
    <3>2. /\ Verified(Known, Identity(item.file)) /\ Identity(item.file) \in Identities
          /\ Known[Identity(item.file)].file = item.file
      BY <2>3, <2>7, IdentityType DEF ExistingArtifact, Holder
    <3>3. inventory # None /\ Known = inventory
      BY <3>2 DEF Known, NoneYet, Verified
    <3>. QED  BY <3>1, <3>2, <3>3 DEF IInv, ProvedInv
  <2>8. CASE item.operation = "idle" /\ ~ExistingArtifact(item.file)
    <3>1. PackageState(item) \in {"Ready", "Needs attention"}
      BY <2>8 DEF PackageState
    <3>. QED  BY <3>1
  <2>. QED  BY <2>3, <2>4, <2>5, <2>6, <2>7, <2>8
<1>. QED  BY <1>1, Invariance, PTL
=============================================================================
