---------------------------- MODULE MCConfigStore ----------------------------
(***************************************************************************)
(* Instances of the configuration store: for each engine the default, one  *)
(* other valid configuration and one invalid one, all model values.  Ports *)
(* and handlers are interchangeable.                                       *)
(***************************************************************************)
EXTENDS ConfigStore, TLC

\* Files whose sections are the defaults, but for any one section of any content.
OneSection ==
  {Truncated, NotObject}
    \union {[Load(NoFile) EXCEPT ![p] = entry] :
              p \in Ports, entry \in [tas : TASConfigs \union {Malformed},
                                      cbs : CBSConfigs \union {Malformed}]}

Interchangeable == Permutations(Ports) \union Permutations(Handlers)
=============================================================================
