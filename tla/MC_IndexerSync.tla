--------------------------- MODULE MC_IndexerSync ---------------------------
(* Small instances of IndexerSync for TLC. *)
EXTENDS IndexerSync

CONSTANTS a, b, v

Emit(topic) == [topic |-> topic, ok |-> TRUE]
OfC(topic, c, u) == Emit(topic) @@ [credit |-> c, user |-> u]

\* A credit that is issued, sold in two parts and retired; a failed call between.
Sold == <<OfC("credit_submitted", 1, a), OfC("credit_minted", 1, a),
          [OfC("credit_retired", 1, b) EXCEPT !.ok = FALSE],
          OfC("offer_created", 1, a) @@ [offer |-> 1, amount |-> 2],
          OfC("offer_filled", 1, b) @@ [offer |-> 1, amount |-> 1],
          OfC("offer_filled", 1, b) @@ [offer |-> 1, amount |-> 1],
          OfC("credit_retired", 1, b)>>

\* A rejected credit, an import, an event of a topic the indexer does not know,
\* and a credit that is sent back.
Bridged == <<OfC("credit_submitted", 1, a), OfC("credit_rejected", 1, v), Emit("config"),
             OfC("bridged", 3, a) @@ [serial |-> "s1"],
             OfC("credit_submitted", 2, a), OfC("credit_minted", 2, a), OfC("bridge_ot", 2, a)>>

\* A credit whose offer is cancelled and that moves; a new root.
Moved == <<OfC("credit_submitted", 1, a), OfC("credit_approved", 1, v), OfC("credit_minted", 1, a), Emit("root_upd"),
           OfC("offer_created", 1, a) @@ [offer |-> 1, amount |-> 1],
           OfC("offer_cancelled", 1, a) @@ [offer |-> 1], OfC("credit_transferred", 1, b)>>

MCScripts == {Sold, Bridged, Moved}
MCShapes == {<<1>>, <<1, 2>>}

\* approve_and_mint emits two events in one transaction.
SameTransaction == {<<1>>, <<1, 1>>}

=============================================================================
