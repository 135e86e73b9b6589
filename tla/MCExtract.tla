----------------------------- MODULE MCExtract -----------------------------
\* Small artifacts of every container, and small workflows.
EXTENDS Extract

\* A chunk, and a chunk that holds something.
C(role, size)        == [role |-> role, size |-> size, holds |-> {}]
H(role, size, holds) == [role |-> role, size |-> size, holds |-> holds]
F(fmt, chunks)       == [fmt |-> fmt, chunks |-> chunks]

Both == {"workflow", "prompt"}

MCFiles ==
  { \* PNG: prompt before workflow, the workflow cut by the first window, up
    \* to the end of the last; behind the pixels in the first window, in the
    \* last one, and in none
    F("png", <<H("text", 1, {"prompt"}), H("text", 3, {"workflow"}), C("image", 4), C("end", 1)>>),
    F("png", <<C("other", 5), H("text", 3, {"workflow"}), C("image", 2), C("end", 1)>>),
    F("png", <<C("image", 1), H("text", 1, {"workflow"}), C("end", 1)>>),
    F("png", <<H("text", 3, {"prompt"}), C("image", 1), H("text", 1, {"workflow"}), C("end", 1)>>),
    F("png", <<C("image", 3), H("text", 1, {"workflow"}), C("end", 1)>>),
    \* WebP: EXIF before and behind the pixels, at a window's end, and no EXIF
    F("webp", <<C("extended", 1), C("image", 2), H("text", 2, Both)>>),
    F("webp", <<C("extended", 1), C("image", 1), H("text", 2, Both)>>),
    F("webp", <<C("extended", 1), C("image", 8), H("text", 1, Both)>>),
    F("webp", <<C("plain", 1), C("image", 4)>>),
    \* JPEG: EXIF cut by the first window
    F("jpeg", <<C("other", 1), H("text", 2, {"workflow"}), C("image", 3)>>),
    \* MP4: metadata in front; behind the pixels; in the tail but for its header
    F("isobmff", <<C("moov", 1), H("box", 1, {"workflow"}), C("image", 6)>>),
    F("isobmff", <<C("image", 5), C("moov", 1), C("list", 1), H("box", 1, Both)>>),
    F("isobmff", <<H("box", 1, {"prompt"}), C("image", 5), C("list", 1), H("box", 1, {"workflow"})>>),
    F("isobmff", <<C("image", 2), C("list", 1), H("box", 2, Both)>>) }

\* Class 1 loads a model the reference table knows of, class 2 is a custom
\* node, class 3 a primitive of the frontend's.
MCVirtual    == {3}
MCCoreInputs == [c \in {1} |-> {"ckpt_name"}]

N(id, class, value) == [id |-> id, class |-> class, value |-> value]
L(src, out, dst, slot, input) ==
  [src |-> src, out |-> out, dst |-> dst, slot |-> slot, input |-> input,
   type |-> IF input = "model" THEN "MODEL" ELSE "COMBO"]

MCGraphs ==
  { [nodes |-> <<N(1, 1, 2), N(2, 1, 1), N(3, 2, 1)>>, listed |-> FALSE,
     links |-> {L(1, 0, 2, 0, "model"), L(2, 1, 3, 0, "model")}],
    [nodes |-> <<N(1, 1, 1), N(2, 1, 2), N(3, 3, 1)>>, listed |-> FALSE,
     links |-> {L(3, 0, 2, 0, "ckpt_name"), L(2, 0, 1, 1, "ckpt_name")}],
    [nodes |-> <<N(1, 2, 1), N(2, 2, 2), N(3, 1, 1)>>, listed |-> TRUE,
     links |-> {L(3, 0, 1, 1, "ckpt_name"), L(1, 0, 2, 0, "model")}] }
=============================================================================
