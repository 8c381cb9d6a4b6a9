-------------------------------- MODULE MCDBImpl --------------------------------
(* The storage engine on small instances, one of which each behaviour is.  *)
EXTENDS DBImpl

Instance(calls, kinds, readers, manuals, faults, stops) ==
  [calls |-> calls, kinds |-> kinds, readers |-> readers, manuals |-> manuals,
   faults |-> faults, stops |-> stops]

Instances ==
  { Instance(3, {"sync"}, {}, {}, {}, 1),
    Instance(3, {"async", "flush"}, Readers, {}, {}, 0),
    Instance(2, Kinds, Readers, {}, {}, 1),
    Instance(2, {"async", "sync"}, {}, {}, {}, 2),
    Instance(2, Kinds, {}, Manuals, {"build", "manifest", "create"}, 0),
    Instance(2, Kinds, {}, {}, {"sync"}, 1),
    Instance(2, Kinds, {}, {}, {"manifest"}, 1),
    Instance(2, Kinds, {}, {}, {"append"}, 0),
    Instance(3, {"async"}, {}, Manuals, {"build"}, 0) }

\* A record may be cut short, and the process may die.
TornRecord == { Instance(3, {"async", "sync"}, {}, {}, {"append"}, 1) }

=================================================================================
