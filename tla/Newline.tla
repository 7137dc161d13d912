------------------------------- MODULE Newline -------------------------------
(***************************************************************************)
(* What set_clipboard does to the line ends of a text the server sends.    *)
(* A text is a sequence of characters; all that are not CR or LF are alike.*)
(***************************************************************************)
EXTENDS Sequences, SequencesExt

CR == "CR"
LF == "LF"

(* text:gsub('\r', ''): a CR is dropped.                                   *)
DropCR(text, ch) == IF ch = CR THEN text ELSE Append(text, ch)
ToLf(text) == FoldLeft(DropCR, <<>>, text)

(* text:gsub('\n', '\r\n'): a CR is added before an LF.                     *)
AddCR(text, ch) == IF ch = LF THEN Append(Append(text, CR), LF)
                              ELSE Append(text, ch)

WithCR(text) == FoldLeft(AddCR, <<>>, text)

(* Bug: the CRs that are there already are kept.                           *)
ToCrlfBug(text) == WithCR(text)

ToCrlf(text) == WithCR(ToLf(text))

(* The mode is the crlf of the settings; any other value, or none, leaves  *)
(* the text as it is.                                                      *)
Converted(mode, text) == CASE mode = "lf" -> ToLf(text)
                           [] mode = "crlf" -> ToCrlf(text)
                           [] OTHER -> text
=============================================================================
