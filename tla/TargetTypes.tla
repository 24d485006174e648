---------------------------- MODULE TargetTypes ----------------------------
(***************************************************************************)
(* The target and package types of src/pkg/fanal/types/const.go: the OS    *)
(* and language target types, the package types (which are PURL types),    *)
(* the set Trivy supports, and TargetType.PkgType, which maps the name an  *)
(* SBOM gives an application to the package type of its libraries.         *)
(* Types are their string values.                                          *)
(***************************************************************************)

\* the OSType constants
OSTypes ==
    {"alma", "alpine", "amazon", "cbl-mariner", "centos", "chainguard",
     "debian", "fedora", "opensuse", "opensuse.leap", "opensuse.tumbleweed",
     "oracle", "photon", "redhat", "rocky", "suse linux enterprise server",
     "ubuntu", "wolfi"}

\* the LangType constants
LangTypes ==
    {"bundler", "gemspec", "cargo", "composer", "npm", "nuget", "dotnet-core",
     "pip", "pipenv", "poetry", "conda-pkg", "python-pkg", "node-pkg", "yarn",
     "pnpm", "jar", "pom", "gradle", "gobinary", "gomod", "javascript",
     "rustbinary", "conan", "cocoapods", "swift", "pub", "hex",
     "kubernetes", "eks", "gke", "aks", "rke", "ocp"}

\* the PkgType constants, and ftypes.SupportedPkgTypes (all of them)
PkgTypeConsts ==
    {"apk", "deb", "rpm", "cargo", "cocoapods", "composer", "conan", "conda",
     "gem", "golang", "hex", "maven", "npm", "nuget", "pub", "pypi", "swift",
     "bitnami", "oci", "k8s"}
SupportedPkgTypes == PkgTypeConsts

\* PkgType.OSPkg
OSPkg(t) == t \in {"apk", "deb", "rpm"}

\* TargetType.PkgType: a type without a case of its own is returned as is;
\* conda-pkg maps to pypi, for which advisories exist.
PkgType(l) ==
    CASE l \in {"alpine", "chainguard", "wolfi"} -> "apk"
      [] l \in {"alma", "cbl-mariner", "centos", "fedora", "opensuse",
                "opensuse.leap", "opensuse.tumbleweed", "oracle", "photon",
                "redhat", "rocky", "suse linux enterprise server"} -> "rpm"
      [] l \in {"debian", "ubuntu"}                      -> "deb"
      [] l \in {"bundler", "gemspec"}                    -> "gem"
      [] l \in {"cargo", "rustbinary"}                   -> "cargo"
      [] l = "composer"                                  -> "composer"
      [] l \in {"npm", "yarn", "pnpm", "javascript", "node-pkg"} -> "npm"
      [] l \in {"nuget", "dotnet-core"}                  -> "nuget"
      [] l \in {"pip", "pipenv", "poetry", "python-pkg"} -> "pypi"
      [] l = "conda-pkg"                                 -> "pypi"
      [] l \in {"pom", "gradle", "jar"}                  -> "maven"
      [] l \in {"gobinary", "gomod"}                     -> "golang"
      [] l = "conan"                                     -> "conan"
      [] l = "cocoapods"                                 -> "cocoapods"
      [] l = "swift"                                     -> "swift"
      [] l = "pub"                                       -> "pub"
      [] l = "hex"                                       -> "hex"
      [] l = "kubernetes"                                -> "k8s"
      [] OTHER                                           -> l
=============================================================================
