# TLA+ models of Trivy's package-identity, SBOM-import and detection core

This directory holds TLA+ models of the Go code under `src/`, with the TLC
configurations that check them. `PROJECT.json` lists:

- every component, modelled or not;
- every run with the properties it checks;
- the mutant that shows each property can fail;
- the source lines behind every definition;
- the findings and the hazards.

Run a model with

    tlc -workers 2 -config <cfg> <MC module>

from this directory.

## The system and how its parts interact

Trivy turns a scan target into packages, gives each package a canonical
identifier (a PackageURL) and looks up advisories for it.

- **Package identity codec** (`src/pkg/purl/purl.go`).
  - `NewPackageURL` encodes a package and the OS it was found on. It uses one
    rule per ecosystem for namespace, name, qualifiers and subpath.
  - `PackageURL.Package` decodes the identifier back into a package. SBOM
    import relies on this decoding.
- **SPDX import** (`src/pkg/sbom/spdx/unmarshal.go`). `unmarshal` walks an
  SPDX document's relationships:
  - root → OS, then OS → package, for OS packages;
  - root → application, then application → package, for language packages.
  - Packages that no relationship reached (orphans) are parsed again by
    `parsePackages`, which groups them by package type.
  - Each package's type comes from its PURL, through the codec's decoder.
    Its file path comes from CONTAINS-file relationships, or from the
    package's own file list.
- **Library driver** (`src/pkg/detector/library/driver.go`).
  - `NewDriver` maps a package type to an advisory bucket prefix and a
    version comparer.
  - `DetectVulnerabilities` queries the advisory source and keeps the
    advisories the comparer says apply. For each one, `createFixedVersions`
    derives the fixed-version string.
- **Scan-service construction** (`src/pkg/commands/artifact/scanner.go`).
  - One constructor per target kind and mode.
  - The standalone constructors go through `createLocalService`. It creates
    a cache unless the configuration brings one, then builds the artifact.
  - It returns a cleanup function that the caller runs when the scan ends.
- **Image reference selection** (`src/pkg/fanal/image/reference.go`,
  `src/pkg/fanal/artifact/image_reference.go`). `DetermineReference` and
  `SetImageReference` both choose the reference an image is reported under
  from its RepoTags and RepoDigests.
- **Type constants** (`src/pkg/fanal/types/const.go`) supply the package
  types, `SupportedPkgTypes` and `OSPkg`. `TargetType.PkgType` maps the name
  an SBOM gives an application (`node-pkg`, `jar`, ...) to the package type
  of its libraries; SPDX import calls it in `initApplication`.

The remaining files are outside the model: IaC provider data types, flag
declarations, a wire stub, a wasm test fixture and tests (see `PROJECT.json`).

None of this code runs concurrently: each function is a sequential
computation.

The hard behaviours are:

- **Orders.** Go map iteration order, the order of relationships in the
  document, and which of two passes writes a field last.
- **Errors that return early** after part of the result has been written.
- **Cleanup** on every error path.
- **String conventions that must agree** between encode and decode, and
  between the two reference selectors.

## Modules

| module | models | state | actions |
|---|---|---|---|
| `SpdxDocument` | the decoded document and what the loop calls on it: the DESCRIBES filter, `getPackageFilePaths`, `parsePkg` and its error classes, `initApplication`'s package type, the fallback's sort order | the document (read-only) | none (operators only) |
| `SbomImport` | what `unmarshal` computes, as one step over the whole document (abstract) | the document, call status, `s.SBOM.OS`, `s.Packages`, the set of applications | `Import` (failed / done) |
| `SpdxUnmarshal` | `unmarshal`, `parsePackages`, `parsePkg`, `getPackageFilePaths` | the document, loop position, `osPkgs`, `apps`, orphans, the fallback's `osPkgs`/`apps`, `s.SBOM.OS`, `s.Packages`, `s.SBOM.Applications` | one action per relationship case (missing, root→OS, OS→pkg, root→app, app→pkg, other), the fill step, one orphan per step, the fallback's fill and sort |
| `PurlCodec` | `NewPackageURL`, `PackageURL.Package` and every `parse*` helper, `parseOCI` included | OS context, image RepoDigests and architecture, package, PURL (or nil, or an error), decoded package | `Encode`, `Decode` |
| `LibraryDriver` | `NewDriver`, `DetectVulnerabilities`, `createFixedVersions` | package type, driver, advisories returned, loop index, detected vulnerabilities | `Construct`, `GetAdvisories` (ok / fail), `SkipAdvisory`, `KeepAdvisory`, `Finish` |
| `TargetTypes` | the type constants of `const.go`, `SupportedPkgTypes`, `OSPkg`, `TargetType.PkgType` | none (operators only) | none |
| `VulnerabilityLookup` | what `DetectVulnerabilities` promises, as one step (abstract) | package type, outcome, the source's answer, the reported vulnerabilities | `NoDriver`, `SourceFails`, `Detect` |
| `ScanService` | the standalone and client/server constructors, `createLocalService`, and the caller's deferred cleanup | target kind, whether a cache was provided, resources held, acquisition and release logs, the returned cleanup | cache provided / created / failing, image–archive–VM open / failing, `NewArtifact` ok / failing, the remote constructors with and without a server address, `CallerCleanup` |
| `ImageReference` | `DetermineReference`, `SelectReferenceBy*`, `normalizeContext`, `NewReference`, `SetImageReference` | RepoTags, RepoDigests, image name, each function's result | `Determine`, `SetReference` |

### How the data is abstracted

- **Strings are token sequences** where the code looks inside them.
  - The separators it splits on (`/`, `:`, `-`, `_`, `.`, `,`, blank, `<`,
    `=`, `>`) are tokens of their own.
  - `A` is an upper-case letter and `a` a lower-case one, so `ToLower` is
    modelled by what it does.
  - Other runs of characters are a single token.
- **SPDX elements and files** are model values.
  - A package's PURL is abstracted to its type, `"none"` or `"malformed"`.
  - Its source info is `"absent"`, `"valid"` or `"invalid"`.
- **Image references** are spellings of one repository:
  - the registry as written;
  - whether `library/` is written;
  - the tag or digest.
- **Go map iteration order** is a nondeterministic choice.
  - `SetToSeqs` is used for the applications map.
  - `\E e \in todo` is used for the orphans map.
- **Code outside `src/` is modelled from its documented behaviour**, and is
  marked `spec_modelled` in the map:
  - `utils.FormatVersion`;
  - go-rpm-version's epoch/version/release split;
  - go-containerregistry's `ParseReference`, as `reference_test.go` shows it;
  - go-containerregistry's `NewDigest` (registry default, `library/` for
    one-segment Docker Hub repositories);
  - the caller that defers the cleanup function.
- **Comparers are abstracted.** The version comparers (semver, PEP 440,
  Maven, RubyGems) live outside `src/`. Each one is reduced to the boolean it
  returns for an advisory.

## Runs

| run | cfg | expect | what it shows |
|---|---|---|---|
| spdx_relationships | `MCSpdxUnmarshal.cfg` | pass (2.4M states) | every document of up to 3 relationships over 2 packages, an OS, an application and a file: a supported package is lost only by the orphan OS overwrite (`LossOnlyByOSOverwrite`), and packages placed by relationships carry a contained file's path. No package occurs more often than the relationships that place it (`NoPackageDuplicatedBeyondEdges`). Each application element with package relationships yields one application holding its parsed packages in relationship order, empty when all were skipped (`ApplicationsFollowRelationships`). The loop implements `SbomImport` (`ImplementsSbomImport`) |
| spdx_parse_errors | `MCSpdxUnmarshalFail.cfg` | pass (565k states) | with malformed PURLs and invalid source info, a hard parse error always makes the call fail, and only an unknown or unsupported package is skipped (`HardErrorsAbort`). What a failed call already wrote to the receiver (`s.SBOM.OS`, line 108) is not judged: the caller discards it. Its documents have two application elements and up to 2 relationships, so two applications come out of the map in either order; each still holds its parsed packages in relationship order (`ApplicationsFollowRelationships`). The refinement is checked here too, covering the failure outcome |
| spdx_no_package_dropped | `MCSpdxUnmarshal_NoPackageDropped.cfg` | violation | **finding**: `unmarshal.go:195` overwrites the OS packages found through relationships when the document also has an orphan OS package |
| spdx_output_paths | `MCSpdxUnmarshal_OutputPathsResolved.cfg` | violation | **finding**: `unmarshal.go:174` parses orphans with a nil file-path map, so a CONTAINS-file path is lost |
| purl_round_trip | `MCPurlCodec.cfg` | pass (994k states) | every name of up to 4 tokens and every `[epoch:]version[-release]`, arch and modularity label, under all 11 modelled ecosystems and OCI, and 4 OS families (the no-OS case is the `purl_no_os` run). With an OS context the version, epoch, arch and modularity label survive encoding and decoding (`EVRRoundTrip`), and names in their ecosystem's normal form come back unchanged (`NameRoundTrip`). An OCI package is named after the last repository segment of the image's first RepoDigest, versioned by its digest and keeps the repository as `repository_url`; no digests give no PURL, a malformed first digest an error (`OCIFromFirstDigest`) |
| purl_deb_release | `MCPurlCodec_RoundTrip.cfg` | violation | **finding**: a deb release comes back folded into the version (`purl.go:102` splits only rpm) |
| purl_no_os | `MCPurlCodecNoOS_EVRRoundTrip.cfg` | violation | **finding**: without an OS context, an RPM's modularity label, arch and epoch are lost (`purl.go:213`) |
| driver_order | `MCLibraryDriver.cfg` | pass | every package type of `const.go` plus an unknown one; answers of up to 3 of 4 advisories, or a failing source. `LibraryDriver` implements `VulnerabilityLookup` (`Refinement`): the reported vulnerabilities are exactly the affected advisories of the source's answer, in order, each with the fixed versions read off its ranges |
| driver_ranges | `MCLibraryDriverRanges.cfg` | pass (38k states) | every vulnerable-range list of up to two terms over all operators and blank placements: the fixed-version string lists exactly the strict upper bounds, checked against a reference read off the terms |
| scan_service | `MCScanService.cfg` | pass | every target kind, with and without a provided cache, failing at each step, under `FairSpec`: no resource is closed twice or without being opened (`ReleasedOnlyOnce`; a provided cache is never acquired, so it is never closed), closes run in reverse order, and every acquired resource is eventually released (`AcquiredEventuallyReleased`, a `~>` property) |
| image_reference | `MCImageReference.cfg` | pass (885k states) | Docker Hub written three ways plus another registry, 2 tags and a digest, up to 2 RepoTags: `DetermineReference` picks the first entry naming the same image, and nil when none does (`DeterminesFirstSameImage`) |
| image_reference_same_choice | `MCImageReference_SameChoice.cfg` | violation | **finding**: `SetImageReference` matches only verbatim spellings, so `alpine:3.20` does not select `index.docker.io/library/alpine:3.20`, while `DetermineReference` does |

### Bounds

- **SPDX.** Two packages are enough for a related and an orphan package of
  the same kind. Three relationships reach the overwrite, the
  last-CONTAINS-wins, a package placed twice and the lazy application
  creation. The failure run's second application element, with two
  relationships, gives two applications in both map orders.
- **OCI.** RepoDigests of none, one or two entries over a Docker Hub
  image written without registry, a three-segment repository on another
  registry and a malformed digest: the last segment differs from the
  first, and a bad digest stands before and after a good one.
- **PURL.** Names of four tokens contain:
  - a namespace with a separator in it (`a/a/a`, `a:a/a`);
  - local Go paths (`./a`);
  - every case and underscore combination.
- **Driver.** Three advisories give two kept around a skipped one. Two
  range terms give a lower and an upper bound in one expression.
- **Image reference.** Two RepoTags give a second match behind a first
  non-matching or unparsable entry.

### Liveness and fairness

All five components are terminating sequential functions, and every run sets
`CHECK_DEADLOCK FALSE` because a finished call is a final state. Each loop
step strictly advances an index over a finite input.

`ScanService` states a liveness property under `FairSpec == Spec /\
WF_vars(Next)`. The fairness is justified by the code: construction runs to
its return in the caller's goroutine, and the caller defers the cleanup
function it gets back (`scanner.go` 336-342), so a step that stays enabled is
eventually taken. Which step is taken, an ok or an error outcome, is left
open. `AcquiredEventuallyReleased` says every resource acquired is eventually
released, on an error path or by the deferred cleanup. The safety half,
`ReleasedOnlyOnce`, says no resource is closed more often than it was opened.

Termination of `LibraryDriver` under weak fairness was tried. TLC
evaluates `ENABLED` of each action in every state. In that mode it does
not cache the nested recursive string operators of `createFixedVersions`,
so the check did not finish. The refinement property, a safety property, is
checked instead.

### Refinement

`VulnerabilityLookup` states what a lookup promises in one step:

- a type without a driver is not scanned;
- otherwise the source fails, or it answers and the reported
  vulnerabilities are `Detections(answer)`.

`Detections(answer)` is one entry per affected advisory, in the answer's
order. Its fixed versions are the patched versions, or else the versions of
the `<v` terms of the ranges, which are read straight off the range records.

`LibraryDriver` renders the ranges to text and parses that text back. It
walks the answer one advisory per step. The refinement mapping:

- the call is `pending` until `phase` is `done`, `failed` or `unavailable`;
- the answer and the vulnerabilities become visible when it returns.

`MCLibraryDriver.cfg` checks `Lookup!Spec` as a `PROPERTY`.

`SbomImport` states what one `unmarshal` call computes, without the loop.
Each relationship between two known elements plays the role of the first
switch case it matches. The call fails exactly when some package it parses
(through an OS or application edge, or as an orphan) has a malformed purl
or source info. Otherwise:

- the OS is the target of the last root => OS edge;
- each application element with package edges yields one application
  holding the packages those edges place, in edge order;
- the orphans (elements no edge adopted) that parse are grouped by type
  into sorted fallback applications;
- the orphan OS packages, in any order, replace the OS packages placed by
  edges. This is the overwrite of the `spdx_no_package_dropped` finding,
  stated as what the code does.

Applications are a set, because the code emits them in Go map order.
`SpdxUnmarshal` maps to it through `Abs == INSTANCE SbomImport WITH ...`:

- the call is `parsing` while `pc` is `rels` or `orphans`;
- the OS, packages and applications are visible once `pc` is `done`.

Both SPDX pass runs check `ImplementsSbomImport == Abs!Spec`. Its mutant
drops the `sort.Sort` of the fallback applications, which no invariant
notices. The document model is shared through `SpdxDocument`, which both
modules extend.

## Findings

See `findings` in `PROJECT.json`. Two concern SPDX import, two the PURL round
trip the spec promises, and one the two reference selectors, which disagree.

## What is not modelled, and next steps

Not modelled:

- `BOMRef`, and `LangType` with the language half of `Class` (no code under `src/` calls them; `Package` only asks whether `Class` is `ClassOSPkg`);
- the canonical PURL text form, i.e. packageurl-go's `String` / `FromString`
  percent-encoding;
- the accessors and JSON marshalling of the reference types: `MarshalJSON`
  writes the original string and `UnmarshalJSON` parses it back, so a model
  of the round trip holds by construction except for the null branch;
- the secret flag group (`secret_flags.go`): a flag declaration and a
  constructor that clones it, with no state a property could tell apart;
- `createRemoteService`, which no constructor calls;
- documents with two OS elements. The instances have one, since spec section 2
  allows one OS record per document. The code keeps the OS of the last
  root => OS relationship (a hazard in `PROJECT.json`). It also emits OS
  packages with an empty OS record when no root => OS relationship exists.
  The model reaches that output, but no property judges it.

Planned next:

- a composition module feeding `SpdxUnmarshal`'s application packages to
  `LibraryDriver`.
