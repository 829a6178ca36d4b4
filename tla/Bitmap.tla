-------------------------------- MODULE Bitmap --------------------------------
(***************************************************************************)
(* Class Bitmap of src/src/bitmap.h.  A bitmap is the set of its positions   *)
(* that are set; what makes setting a bit more than adding an element is     *)
(* that memory is read and written a word at a time.                         *)
(*                                                                          *)
(* set_bit loads a word and later stores it back with one more bit, so it    *)
(* undoes what others stored in between; set_bit_atomic stores only if the   *)
(* word is still the one it loaded.                                          *)
(***************************************************************************)
EXTENDS Integers

CONSTANT kBitsPerWord       \* 64 in the code; not zero

word_offset(pos) == pos \div kBitsPerWord

(* The word that holds pos, as the set of its set bits.                      *)
LoadWord(bitmap, pos) == {b \in bitmap : word_offset(b) = word_offset(pos)}

StoreWord(bitmap, pos, word) == (bitmap \ LoadWord(bitmap, pos)) \cup word

(* The store of set_bit, with the word that was loaded.                      *)
SetBitStore(bitmap, pos, loaded) == StoreWord(bitmap, pos, loaded \cup {pos})

get_bit(bitmap, pos) == pos \in bitmap

================================================================================
