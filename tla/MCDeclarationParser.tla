------------------------ MODULE MCDeclarationParser -------------------------
(* Vocabularies in which short sources put declarations of all kinds into   *)
(* one another, statements into one another, and types into one another.    *)
EXTENDS DeclarationParser

Times(n, S) == [tok \in S |-> n]

MCModules == Times(2, {"module", "::", "{", "}", ":", ";"}) @@ Times(4, {"a"}) @@ Times(1, {"pub"})
MCContainers == Times(2, {"pub", "type", "struct", "component", "a", "{", "}"})
                @@ Times(1, {"b", "i32"})
MCMembers == Times(2, {"pub", ":", ";", "{", "}"}) @@ Times(1, {"type", "component", "fn"})
             @@ Times(4, {"a"})
MCFields == Times(2, {"pub", "mut", "=", "e", ":", ";"}) @@ Times(3, {"a"})
MCTypes == Times(2, {"a", "ref"}) @@ Times(1, {"mut", "*", "::", ":", ";", "opaque_ptr"})
MCArrays == Times(3, {"[", "]"}) @@ Times(2, {"a", "1"}) @@ Times(1, {":", ";", "0", "e"})
MCFunctionPointers == Times(3, {"a", ":"}) @@ Times(2, {"("})
                      @@ Times(1, {"fn", "*", "ref", ";", ")", ",", "->", "val"})
MCSignatures == Times(5, {"a"}) @@ Times(2, {"(", ")", ":"})
                @@ Times(1, {"fn", "mut", "val", ",", "->", "{", "}"})
MCBranches == Times(1, {"fn", "->"}) @@ Times(2, {"a", "else", "e", "if"})
              @@ Times(3, {"(", ")"}) @@ Times(5, {"{", "}"})
MCLoops == Times(1, {"fn", "->", "e"}) @@ Times(2, {"a", "for"}) @@ Times(3, {"(", ")", "{", "}"})
           @@ Times(4, {";"})
MCForInits == Times(1, {"fn", "->", "for", "let", "type", "struct", ":", "e"})
              @@ Times(2, {"(", ")", "{", "}"}) @@ Times(3, {"a", ";"})
MCLocals == Times(1, {"fn", "->", "=", "*", "s{}", "a{}", "let", "ret", "e"})
            @@ Times(4, {"a"}) @@ Times(2, {"{", "}", "(", ")", "while", ":", ";"})
MCNullTypes == Times(1, {"(", ")", "->", "{", "let", ":", "=", "s{}", "a{}"})
               @@ Times(2, {"fn", "a"}) @@ Times(1, {"b", "*"})

MCVocabularies == {MCModules, MCContainers, MCMembers, MCFields, MCTypes, MCArrays,
                   MCFunctionPointers, MCSignatures, MCBranches, MCLoops,
                   MCForInits, MCLocals, MCNullTypes}
=============================================================================
