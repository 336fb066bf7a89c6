------------------------ MODULE MCAddressTolerance ------------------------
(***************************************************************************)
(* Small binaries for AddressTolerance: four addresses chosen so that the  *)
(* digits 10 and 12 mean an address in base 10 and another in base 16.     *)
(***************************************************************************)
EXTENDS AddressTolerance

Places == {10, 12, 16, 18}

Blocks == {
    [a \in Places |-> CASE a = 10 -> "text" [] a = 12 -> "text"
                        [] a = 16 -> "plt"  [] a = 18 -> "none"],
    [a \in Places |-> CASE a = 10 -> "plt"  [] a = 12 -> "data"
                        [] a = 16 -> "none" [] a = 18 -> "text"]}

(* Functions lie in executable blocks and own their entry. *)
Layouts(block) ==
    {owner \in [Places -> Places \cup {NoAddress}] :
        \A a \in Places :
            owner[a] # NoAddress => /\ block[a] \in {"text", "plt"}
                                    /\ owner[owner[a]] = owner[a]}

(* Where a PLT slot's call or jump references may lead. *)
References == {[a \in Places |-> IF a \in {10, 16} THEN T ELSE {}] :
                  T \in {{}, {12}, {10, 18}, {10, 12, 18}}}

Sym(at, function, external, global) ==
    [at |-> at, function |-> function, external |-> external, global |-> global]

(* Sets of symbols that share the name typed: a function, a namespaced     *)
(* function, an import (which a library's namespace holds), labels, with   *)
(* the functions that have the name.                                       *)
Named(owner) ==
    {n \in [symbols : SUBSET {Sym(10, TRUE, FALSE, TRUE), Sym(18, TRUE, FALSE, FALSE),
                              Sym(12, TRUE, TRUE, FALSE), Sym(16, FALSE, FALSE, TRUE),
                              Sym(16, FALSE, FALSE, FALSE)},
            named : SUBSET {10, 18}] :
        /\ \A e \in n.named : owner[e] = e
        /\ \A s \in n.symbols : s.function /\ ~s.external => s.at \in n.named}

MCPrograms ==
    UNION {UNION {{[block |-> block, owner |-> owner, refs |-> refs,
                    symbols |-> n.symbols, named |-> n.named] :
                       refs \in References, n \in Named(owner)} :
                  owner \in Layouts(block)} : block \in Blocks}

Typed(form, hex, dec) == [form |-> form, hex |-> hex, dec |-> dec]

MCRequests == {Typed("hex", 10, 0), Typed("hex", 12, 0), Typed("hex", 16, 10),
               Typed("hex", 18, 12), Typed("letters", 10, 0), Typed("bare", 16, 10),
               Typed("bare", 18, 12), Typed("name", 0, 0), Typed("huge", 0, 0)}
=============================================================================
