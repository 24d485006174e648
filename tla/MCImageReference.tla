-------------------------- MODULE MCImageReference --------------------------
(* Docker Hub written three ways and one other registry, two tags and one  *)
(* digest, RepoTags of up to two entries.                                  *)
EXTENDS ImageReference

MCRegistries == {"", "docker.io", "index.docker.io", "ghcr.io"}
MCTags == {"t1", "t2"}
MCDigests == {"d1"}
=============================================================================
