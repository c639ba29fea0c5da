---------------------------- MODULE InformerFactory ----------------------------
(****************************************************************************)
(* The shared informer factory, generated for tunnels and the same in         *)
(* client-go for the other kinds: one informer for each kind of object, made  *)
(* when it is first asked for, and run once by Start.  The operator never      *)
(* calls its Shutdown and WaitForCacheSync.                                   *)
(****************************************************************************)
EXTENDS Naturals

CONSTANT Kinds      \* kinds of objects

(* informers[k] is the informer made for kind k, 0 before; running are those
   whose goroutines Start has launched. *)
Factory == [informers: [Kinds -> Nat], made: Nat, startedInformers: SUBSET Kinds,
            running: SUBSET Nat]

NewSharedInformerFactory ==
    [informers |-> [k \in Kinds |-> 0], made |-> 0, startedInformers |-> {},
     running |-> {}]

(* The factory after an informer for kind was asked for. *)
InformerFor(f, kind) ==
    IF f.informers[kind] # 0 THEN f
    ELSE [f EXCEPT !.informers[kind] = f.made + 1, !.made = @ + 1]

(* Every informer registered so far is run, once. *)
StartFactory(f) ==
    LET fresh == {k \in Kinds : f.informers[k] # 0} \ f.startedInformers
    IN  [f EXCEPT !.startedInformers = @ \cup fresh,
                  !.running = @ \cup {f.informers[k] : k \in fresh}]
==============================================================================
