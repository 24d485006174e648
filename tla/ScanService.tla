---------------------------- MODULE ScanService ----------------------------
(***************************************************************************)
(* Scan-service construction and teardown in                               *)
(* src/pkg/commands/artifact/scanner.go: the standalone constructors       *)
(* (createLocalService with one artifact factory per target kind) and the  *)
(* client/server constructors, and the caller that runs the returned       *)
(* cleanup function once the scan is over.                                 *)
(*                                                                         *)
(* Resources are the local artifact cache ("cache", made by cache.New when *)
(* the configuration brings none) and the container image handle          *)
(* ("image", opened by image.NewContainerImage, released by cleanupImage). *)
(* A cache handed in by the configuration is open from the start and owned *)
(* by the caller.  Every call that can fail (cache.New, opening the image, *)
(* archive or VM, NewArtifact) is a step with an ok and an error outcome.  *)
(***************************************************************************)
EXTENDS Naturals, Sequences, SequencesExt, FiniteSets

CONSTANTS
    Kinds,   \* target kinds a command may scan
    Nil      \* the nil cleanup function of a failed createLocalService

LocalKinds == {"image", "archive", "filesystem", "repository", "sbom", "vm"}
RemoteKinds == {"imageRemote", "archiveRemote", "filesystemRemote",
                "repositoryRemote", "sbomRemote", "vmRemote"}
\* factories whose first step opens an image, archive or VM and can fail
SourceKinds == {"image", "archive", "vm"}

VARIABLES
    kind,      \* the target kind of this command
    provided,  \* conf.Cache # nil
    phase,     \* "start", "source", "artifact", "ready", "closed", "failed"
    open,      \* resources currently held
    acquired,  \* resources the service acquired itself, in acquisition order
    released,  \* resources released, in release order
    cleanup    \* the returned cleanup function: the releases it performs, or Nil

vars == <<kind, provided, phase, open, acquired, released, cleanup>>

Acquire(r) ==
    /\ open' = open \cup {r}
    /\ acquired' = Append(acquired, r)

\* run the release functions rs in order
ReleaseAll(rs) ==
    /\ open' = open \ ToSet(rs)
    /\ released' = released \o rs

OwnCache == \E j \in DOMAIN acquired : acquired[j] = "cache"
\* cleanupCache, called only when it is not nil
CacheCleanup == IF OwnCache THEN <<"cache">> ELSE <<>>

Init ==
    /\ kind \in Kinds
    /\ provided \in BOOLEAN
    /\ phase = "start"
    /\ open = IF provided THEN {"cache"} ELSE {}
    /\ acquired = <<>>
    /\ released = <<>>
    /\ cleanup = Nil

-----------------------------------------------------------------------------
(* createLocalService, lines 311-319                                       *)
UseProvidedCache ==
    /\ phase = "start" /\ kind \in LocalKinds /\ provided
    /\ phase' = IF kind \in SourceKinds THEN "source" ELSE "artifact"
    /\ UNCHANGED <<kind, provided, open, acquired, released, cleanup>>

NewCache ==
    /\ phase = "start" /\ kind \in LocalKinds /\ ~provided
    /\ Acquire("cache")
    /\ phase' = IF kind \in SourceKinds THEN "source" ELSE "artifact"
    /\ UNCHANGED <<kind, provided, released, cleanup>>

NewCacheFail ==
    /\ phase = "start" /\ kind \in LocalKinds /\ ~provided
    /\ phase' = "failed"
    /\ UNCHANGED <<kind, provided, open, acquired, released, cleanup>>

(* the artifact factory: NewContainerImage / NewArchiveImage / NewVM       *)
OpenSource ==
    /\ phase = "source"
    /\ IF kind = "image" THEN Acquire("image") ELSE UNCHANGED <<open, acquired>>
    /\ phase' = "artifact"
    /\ UNCHANGED <<kind, provided, released, cleanup>>

\* the factory fails before holding anything; createLocalService releases
\* the cache only if it created it (lines 328-333)
OpenSourceFail ==
    /\ phase = "source"
    /\ ReleaseAll(CacheCleanup)
    /\ phase' = "failed"
    /\ UNCHANGED <<kind, provided, acquired, cleanup>>

\* mutant: the cleanup function runs the cache cleanup before the artifact's
NewArtifactCacheFirst ==
    /\ phase = "artifact"
    /\ cleanup' = CacheCleanup \o (IF kind = "image" THEN <<"image">> ELSE <<>>)
    /\ phase' = "ready"
    /\ UNCHANGED <<kind, provided, open, acquired, released>>
\* NewArtifact succeeds: the service is returned with a cleanup function
\* that runs cleanupArtifact (cleanupImage for images) and then cleanupCache
NewArtifact ==
    /\ phase = "artifact"
    /\ cleanup' = (IF kind = "image" THEN <<"image">> ELSE <<>>) \o CacheCleanup
    /\ phase' = "ready"
    /\ UNCHANGED <<kind, provided, open, acquired, released>>

\* mutant: the image is not cleaned up when NewArtifact fails (line 47)
NewArtifactFailNoImageCleanup ==
    /\ phase = "artifact"
    /\ ReleaseAll(CacheCleanup)
    /\ phase' = "failed"
    /\ UNCHANGED <<kind, provided, acquired, cleanup>>
\* NewArtifact fails: the image factory runs cleanupImage, then
\* createLocalService runs cleanupCache if it made the cache
NewArtifactFail ==
    /\ phase = "artifact"
    /\ ReleaseAll((IF kind = "image" THEN <<"image">> ELSE <<>>) \o CacheCleanup)
    /\ phase' = "failed"
    /\ UNCHANGED <<kind, provided, acquired, cleanup>>

-----------------------------------------------------------------------------
(* client/server constructors: nothing is held, the cleanup is func() {}   *)
\* mutant: a nil cleanup function is returned with the service
RemoteServiceNilCleanup ==
    /\ phase = "start" /\ kind \in RemoteKinds
    /\ cleanup' = Nil
    /\ phase' = "ready"
    /\ UNCHANGED <<kind, provided, open, acquired, released>>
RemoteService ==
    /\ phase = "start" /\ kind \in RemoteKinds
    /\ cleanup' = <<>>
    /\ phase' = "ready"
    /\ UNCHANGED <<kind, provided, open, acquired, released>>

\* ServerAddr == "": an error, with a non-nil no-op cleanup
RemoteServiceNoAddr ==
    /\ phase = "start" /\ kind \in RemoteKinds
    /\ cleanup' = <<>>
    /\ phase' = "failed"
    /\ UNCHANGED <<kind, provided, open, acquired, released>>

\* mutant: the caller's state is not advanced, so cleanup can run again
CallerCleanupKeepsReady ==
    /\ phase = "ready"
    /\ ReleaseAll(cleanup)
    /\ UNCHANGED <<kind, provided, phase, acquired, cleanup>>
(* the caller: on success it scans and then calls cleanup once            *)
CallerCleanup ==
    /\ phase = "ready"
    /\ ReleaseAll(cleanup)
    /\ phase' = "closed"
    /\ UNCHANGED <<kind, provided, acquired, cleanup>>

Next ==
    \/ UseProvidedCache \/ NewCache \/ NewCacheFail
    \/ OpenSource \/ OpenSourceFail
    \/ NewArtifact \/ NewArtifactFail
    \/ RemoteService \/ RemoteServiceNoAddr
    \/ CallerCleanup

Spec == Init /\ [][Next]_vars

\* Construction runs to its return in the caller's goroutine, and the
\* caller defers the cleanup it gets back: no step that stays enabled is
\* postponed forever.  Which step is taken (an ok or an error outcome) is
\* left open.
FairSpec == Spec /\ WF_vars(Next)

-----------------------------------------------------------------------------
Resources == {"cache", "image"}

\* the service state is well-typed, and whenever construction succeeded
\* the caller holds a cleanup function to defer, never nil
TypeOK ==
    /\ kind \in Kinds
    /\ provided \in BOOLEAN
    /\ phase \in {"start", "source", "artifact", "ready", "closed", "failed"}
    /\ open \subseteq Resources
    /\ acquired \in Seq(Resources) /\ released \in Seq(Resources)
    /\ cleanup \in Seq(Resources) \cup {Nil}
    /\ phase \in {"ready", "closed"} => cleanup # Nil

Count(s, r) == Len(SelectSeq(s, LAMBDA x : x = r))

\* No resource is closed twice, and nothing the service did not open is
\* closed by it: the error paths of the factories and createLocalService
\* and the returned cleanup function never overlap (scanner.go:47,
\* 328-333, 336-342).
ReleasedOnlyOnce ==
    \A r \in Resources : Count(released, r) <= Count(acquired, r)

\* Whatever step fails, every resource the service acquires is eventually
\* released: by an error path before construction returns, or by the
\* cleanup function the caller defers.
AcquiredEventuallyReleased ==
    \A r \in Resources :
        (r \in ToSet(acquired)) ~> (r \in ToSet(released) /\ r \notin open)

\* Resources are released in the reverse of the order they were acquired:
\* the image, which was opened with the cache, goes before the cache.
ReleasedInReverseOrder ==
    \A i, j \in DOMAIN released :
        i < j => \A a, b \in DOMAIN acquired :
                    acquired[a] = released[i] /\ acquired[b] = released[j] => a > b
====
