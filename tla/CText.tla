------------------------------- MODULE CText --------------------------------
(*****************************************************************************)
(* Bytes, C strings and upper case: what the loops around toupper() and      *)
(* printf("%s") do to a buffer. A byte is its ASCII code.                    *)
(*****************************************************************************)
EXTENDS Integers, Sequences, FiniteSets

Byte == 0 .. 255
Nul == 0
Newline == 10

\* toupper() in the C locale
Upper(b) == IF b \in 97 .. 122 THEN b - 32 ELSE b
UpperText(s) == [k \in 1 .. Len(s) |-> Upper(s[k])]

\* strlen() of a buffer that holds the bytes of s and then a '\0': how many
\* bytes come before the first '\0'
StrLen(s) == Cardinality({k \in 1 .. Len(s) : \A j \in 1 .. k : s[j] # Nul})

\* what printf("%s") shows of such a buffer
CString(s) == SubSeq(s, 1, StrLen(s))

(*****************************************************************************)
(* How the client programs frame a typed line before they write() it.        *)
(*****************************************************************************)
\* the newline is replaced by '\0' and strlen(line) + 1 bytes are written
NulFramed(text) == Append(text, Nul)

\* the newline is cut off and strlen(line) bytes are written
Unframed(text) == text

\* the line is written as fgets() left it, newline included
NewlineFramed(text) == Append(text, Newline)

-----------------------------------------------------------------------------
(*****************************************************************************)
(* What a user is promised of a stream that is read piece by piece, whatever *)
(* the pieces: each byte is shown once, in order and in upper case. What may *)
(* be missing are the '\0's themselves and, where a piece of at most `most'  *)
(* bytes is printed as a C string, bytes so near behind a '\0' that one      *)
(* read() may have taken them together with it.                              *)
(*****************************************************************************)
Losable(stream, most) ==
  {k \in 1 .. Len(stream) : \E j \in 1 .. k : stream[j] = Nul /\ k - j < most}

\* the place of byte k on the screen, when `kept' are the bytes that are shown
Place(kept, k) == Cardinality({j \in kept : j <= k})

ShownOnce(text, stream, most) ==
  \E kept \in SUBSET (1 .. Len(stream)) :
    /\ (1 .. Len(stream)) \ kept \subseteq Losable(stream, most)
    /\ Len(text) = Cardinality(kept)
    /\ \A k \in kept : stream[k] # Nul /\ text[Place(kept, k)] = Upper(stream[k])

=============================================================================
