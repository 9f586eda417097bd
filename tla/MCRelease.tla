----------------------------- MODULE MCRelease -----------------------------
(* Release on a small instance: the licences that tell the rules apart, and *)
(* every text of at most three tokens in which some rule of the grammar,    *)
(* other than that of a single licence, can begin.                          *)
EXTENDS Release

MCTargets == <<"arm64", "x86_64">>
MCBuilds == {MCTargets}
\* The bundle may carry the magic; the Rust sources tell one release from the next
MCContaining == {<<"web", 2>>}

Tokens == {"MIT", "GPL-3.0", "MPL-2.0", "(", ")", "OR", "AND", "WITH"}
Short == UNION {[1 .. n -> Tokens] : n \in 0 .. 2}
Texts == Short \cup {t \in [1 .. 3 -> Tokens] : t[1] = "(" \/ t[2] \in Operators}
Long == {<<"MIT", "OR", "MPL-2.0", "AND", "Zlib">>, <<"(", "MIT", "OR", "GPL-3.0", ")">>,
         <<"(", "MIT", "OR", "Zlib", ")", "AND", "Apache-2.0">>,
         <<"Zlib", "AND", "MIT", "OR", "Apache-2.0">>,
         <<"Zlib", "AND", "(", "MIT", "OR", "Apache-2.0", ")">>,
         <<"(", "Apache-2.0", ")", "WITH", "LLVM-exception">>,
         <<"Apache-2.0", "WITH", "LLVM-exception", "OR", "Zlib">>,
         <<"MIT", "AND", "NOASSERTION">>}
Entries == {<<>>, <<<<"MIT">>, <<"Zlib">>>>, <<<<"MIT", "OR", "Zlib">>, <<"Apache-2.0">>>>}

MCSboms ==
  {{Npm(dev, <<text>>)} : dev \in BOOLEAN, text \in Texts}
    \cup {{Crate(normal, build, <<text>>)} : normal \in BOOLEAN, build \in BOOLEAN, text \in Long}
    \cup {{Npm(FALSE, e), Npm(TRUE, <<<<"MPL-2.0">>>>)} : e \in Entries}
=============================================================================
