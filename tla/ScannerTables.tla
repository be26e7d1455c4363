---- MODULE ScannerTables ----
(***************************************************************************)
(* The tables flex compiled the rules of Lexer.l to, as they stand in      *)
(* Lexer.cpp.  C arrays start at 0: entry i is element i + 1 here.         *)
(***************************************************************************)

\* The classes yy_ec puts the characters into, from 1 on; NUL has class 0.
Classes ==
  <<"?", "sp", "nl", "cr", "!", "dq", "#", "$", "'", "x", "-", ".", "1", ":", ";", "=", "E", "[",
    "\\", "]", "c", "d", "e", "i", "l", "n", "o", "r", "u", "v", "{", "}">>

yy_accept ==
  <<0, 0, 0, 0, 0, 0, 0, 0, 0, 0, 0, 0, 0, 0, 0, 0, 0, 0, 0, 0, 0, 0, 0, 0, 0, 0, 0, 0, 0, 77, 9, 1, 3, 8, 4, 8, 7,
    20, 15, 19, 20, 18, 12, 10, 13, 14, 11, 30, 21, 22, 27, 31, 31, 28, 30, 30, 24, 54, 48, 48, 55, 55, 49, 54, 54,
    53, 50, 66, 60, 60, 61, 67, 67, 66, 66, 65, 62, 40, 42, 43, 42, 46, 76, 45, 58, 76, 57, 70, 76, 69, 73, 72, 74,
    75, 35, 34, 39, 38, 1, 0, 2, 8, 8, 4, 6, 15, 17, 0, 12, 10, 30, 21, 0, 29, 0, 30, 24, 23, 23, 30, 54, 48, 51, 54,
    53, 52, 52, 54, 66, 60, 63, 66, 65, 64, 64, 66, 40, 41, 46, 47, 44, 58, 59, 56, 70, 71, 68, 73, 72, 35, 33, 39,
    37, 8, 0, 26, 25, 30, 23, 30, 23, 54, 52, 54, 52, 66, 64, 66, 64, 32, 36, 8, 0, 30, 23, 54, 52, 66, 64, 8, 0, 8,
    0, 8, 0, 5, 0, 0, 16, 0>>

yy_meta ==
  <<0, 1, 2, 3, 4, 5, 6, 7, 8, 9, 5, 5, 5, 5, 1, 10, 1, 5, 11, 12, 13, 5, 5, 5, 5, 5, 5, 5, 5, 5, 5, 1, 14>>

yy_base ==
  <<0, 0, 0, 0, 0, 31, 46, 61, 80, 99, 117, 135, 149, 163, 177, 191, 209, 29, 34, 35, 36, 38, 43, 50, 69, 512, 511,
    513, 512, 516, 678, 34, 37, 491, 0, 0, 494, 678, 54, 678, 53, 678, 0, 508, 678, 678, 678, 0, 83, 678, 503, 678,
    476, 497, 65, 492, 76, 0, 88, 92, 678, 473, 678, 101, 489, 191, 678, 0, 129, 203, 678, 678, 470, 103, 487, 207,
    678, 0, 678, 678, 466, 0, 464, 678, 0, 457, 678, 0, 456, 678, 0, 484, 678, 678, 0, 464, 0, 295, 219, 199, 223, 0,
    274, 0, 678, 227, 678, 269, 0, 296, 0, 230, 291, 678, 286, 281, 223, 220, 225, 228, 0, 247, 678, 276, 240, 241,
    242, 234, 0, 258, 678, 262, 254, 255, 256, 263, 0, 678, 0, 678, 678, 0, 678, 678, 0, 678, 678, 0, 268, 0, 247, 0,
    238, 201, 173, 678, 678, 269, 268, 178, 174, 273, 270, 169, 164, 277, 279, 160, 155, 678, 678, 138, 131, 141, 136,
    132, 127, 121, 114, 93, 81, 82, 73, 63, 52, 0, 36, 39, 678, 678, 302, 316, 330, 344, 358, 372, 386, 400, 414, 428,
    442, 456, 36, 470, 484, 498, 512, 526, 540, 554, 567, 581, 594, 608, 621, 635, 649, 663>>

yy_def ==
  <<0, 189, 1, 1, 1, 190, 190, 191, 191, 192, 192, 193, 193, 194, 194, 195, 195, 196, 196, 197, 197, 198, 198, 199,
    199, 200, 200, 201, 201, 189, 189, 189, 189, 202, 203, 202, 189, 189, 189, 189, 189, 189, 204, 189, 189, 189, 189,
    205, 189, 189, 189, 189, 189, 189, 205, 205, 205, 206, 189, 189, 189, 189, 189, 206, 206, 206, 189, 207, 189, 189,
    189, 189, 189, 207, 207, 207, 189, 208, 189, 189, 189, 209, 210, 189, 211, 212, 189, 213, 214, 189, 215, 189, 189,
    189, 216, 189, 217, 189, 189, 189, 189, 202, 202, 203, 189, 189, 189, 189, 204, 189, 205, 189, 189, 189, 189, 205,
    205, 205, 205, 205, 206, 189, 189, 206, 206, 206, 206, 206, 207, 189, 189, 207, 207, 207, 207, 207, 208, 189, 209,
    189, 189, 211, 189, 189, 213, 189, 189, 215, 189, 216, 189, 217, 189, 202, 189, 189, 189, 205, 205, 205, 205, 206,
    206, 206, 206, 207, 207, 207, 207, 189, 189, 202, 189, 205, 205, 206, 206, 207, 207, 202, 189, 202, 189, 202, 189,
    202, 189, 189, 189, 0, 189, 189, 189, 189, 189, 189, 189, 189, 189, 189, 189, 189, 189, 189, 189, 189, 189, 189,
    189, 189, 189, 189, 189, 189, 189, 189, 189, 189>>

yy_nxt ==
  <<0, 30, 31, 32, 31, 33, 30, 34, 30, 30, 35, 35, 35, 35, 30, 30, 30, 35, 36, 30, 30, 35, 35, 35, 35, 35, 35, 35, 35,
    35, 35, 30, 30, 38, 39, 38, 98, 82, 98, 99, 100, 101, 82, 85, 85, 40, 88, 41, 38, 39, 38, 88, 91, 92, 93, 188,
    105, 93, 105, 187, 40, 83, 41, 43, 44, 45, 83, 86, 86, 106, 89, 91, 92, 93, 186, 89, 93, 115, 116, 45, 107, 46,
    43, 44, 45, 111, 185, 111, 118, 116, 121, 121, 121, 119, 121, 121, 121, 184, 45, 119, 46, 48, 49, 48, 183, 50, 51,
    52, 53, 182, 54, 55, 56, 123, 124, 131, 132, 51, 51, 48, 49, 48, 181, 50, 51, 52, 53, 178, 54, 55, 56, 129, 129,
    129, 178, 51, 51, 58, 59, 58, 176, 60, 60, 61, 62, 176, 63, 64, 65, 174, 66, 58, 59, 58, 174, 60, 60, 61, 62, 180,
    63, 64, 65, 179, 66, 68, 69, 68, 168, 70, 71, 72, 71, 168, 73, 74, 75, 164, 76, 68, 69, 68, 164, 70, 71, 72, 71,
    160, 73, 74, 75, 160, 76, 78, 79, 78, 172, 78, 78, 80, 78, 99, 100, 126, 124, 129, 129, 129, 127, 78, 78, 78, 79,
    78, 127, 78, 78, 80, 78, 134, 132, 98, 171, 98, 135, 99, 100, 78, 78, 105, 135, 105, 111, 117, 111, 118, 116, 157,
    158, 159, 119, 160, 157, 157, 170, 163, 119, 164, 157, 121, 121, 121, 126, 124, 125, 162, 169, 127, 161, 161, 129,
    129, 129, 127, 161, 161, 134, 132, 133, 166, 148, 135, 165, 165, 167, 133, 168, 135, 165, 165, 173, 158, 174, 162,
    175, 157, 176, 161, 177, 125, 178, 157, 166, 161, 117, 156, 165, 155, 109, 154, 153, 152, 165, 37, 37, 37, 37, 37,
    37, 37, 37, 37, 37, 37, 37, 37, 37, 42, 42, 42, 42, 42, 42, 42, 42, 42, 42, 42, 42, 42, 42, 47, 47, 47, 47, 47,
    47, 47, 47, 47, 47, 47, 47, 47, 47, 57, 57, 57, 57, 57, 57, 57, 57, 57, 57, 57, 57, 57, 57, 67, 67, 67, 67, 67,
    67, 67, 67, 67, 67, 67, 67, 67, 67, 77, 77, 77, 77, 77, 77, 77, 77, 77, 77, 77, 77, 77, 77, 81, 81, 81, 81, 81,
    81, 81, 81, 81, 81, 81, 81, 81, 81, 84, 84, 84, 84, 84, 84, 84, 84, 84, 84, 84, 84, 84, 84, 87, 87, 87, 87, 87,
    87, 87, 87, 87, 87, 87, 87, 87, 87, 90, 90, 90, 90, 90, 90, 90, 90, 90, 90, 90, 90, 90, 90, 94, 94, 94, 94, 94,
    94, 94, 94, 94, 94, 94, 94, 94, 94, 96, 96, 96, 96, 96, 96, 96, 96, 96, 96, 96, 96, 96, 96, 103, 103, 150, 103,
    103, 103, 103, 103, 103, 103, 103, 103, 103, 103, 108, 148, 146, 143, 108, 108, 108, 108, 108, 108, 140, 108, 137,
    108, 110, 133, 130, 125, 110, 122, 117, 114, 113, 110, 112, 109, 110, 110, 120, 104, 102, 189, 120, 97, 97, 95,
    95, 189, 120, 120, 120, 120, 128, 189, 189, 189, 128, 189, 189, 189, 189, 189, 128, 128, 128, 128, 136, 189, 189,
    189, 136, 189, 189, 189, 189, 136, 189, 189, 136, 136, 138, 138, 138, 138, 138, 138, 138, 189, 138, 138, 138, 138,
    138, 139, 139, 139, 139, 139, 139, 139, 139, 139, 139, 139, 139, 139, 139, 141, 141, 141, 141, 141, 141, 141, 189,
    141, 141, 141, 141, 141, 142, 142, 142, 142, 142, 142, 142, 142, 142, 142, 142, 142, 142, 142, 144, 144, 144, 144,
    144, 144, 144, 189, 144, 144, 144, 144, 144, 145, 145, 145, 145, 145, 145, 145, 145, 145, 145, 145, 145, 145, 145,
    147, 147, 189, 189, 147, 147, 189, 147, 147, 147, 147, 147, 147, 147, 149, 149, 149, 149, 149, 149, 149, 149, 189,
    149, 149, 149, 149, 149, 151, 151, 151, 151, 151, 189, 151, 151, 151, 151, 151, 151, 151, 151, 29, 189, 189, 189,
    189, 189, 189, 189, 189, 189, 189, 189, 189, 189, 189, 189, 189, 189, 189, 189, 189, 189, 189, 189, 189, 189, 189,
    189, 189, 189, 189, 189, 189>>

yy_chk ==
  <<0, 1, 1, 1, 1, 1, 1, 1, 1, 1, 1, 1, 1, 1, 1, 1, 1, 1, 1, 1, 1, 1, 1, 1, 1, 1, 1, 1, 1, 1, 1, 1, 1, 5, 5, 5, 31,
    17, 31, 32, 32, 202, 18, 19, 20, 5, 21, 5, 6, 6, 6, 22, 23, 23, 23, 187, 38, 23, 38, 186, 6, 17, 6, 7, 7, 7, 18,
    19, 20, 40, 21, 24, 24, 24, 184, 22, 24, 54, 54, 7, 40, 7, 8, 8, 8, 48, 183, 48, 56, 56, 58, 58, 58, 56, 59, 59,
    59, 182, 8, 56, 8, 9, 9, 9, 181, 9, 9, 9, 9, 180, 9, 9, 9, 63, 63, 73, 73, 9, 9, 10, 10, 10, 179, 10, 10, 10, 10,
    178, 10, 10, 10, 68, 68, 68, 177, 10, 10, 11, 11, 11, 176, 11, 11, 11, 11, 175, 11, 11, 11, 174, 11, 12, 12, 12,
    173, 12, 12, 12, 12, 172, 12, 12, 12, 171, 12, 13, 13, 13, 168, 13, 13, 13, 13, 167, 13, 13, 13, 164, 13, 14, 14,
    14, 163, 14, 14, 14, 14, 160, 14, 14, 14, 159, 14, 15, 15, 15, 154, 15, 15, 15, 15, 99, 99, 65, 65, 69, 69, 69,
    65, 15, 15, 16, 16, 16, 65, 16, 16, 16, 16, 75, 75, 98, 153, 98, 75, 100, 100, 16, 16, 105, 75, 105, 111, 117,
    111, 116, 116, 117, 118, 119, 116, 119, 118, 117, 152, 127, 116, 127, 118, 121, 121, 121, 124, 124, 125, 126, 150,
    124, 125, 126, 129, 129, 129, 124, 125, 126, 132, 132, 133, 134, 148, 132, 133, 134, 135, 131, 135, 132, 133, 134,
    157, 158, 157, 162, 161, 158, 161, 162, 165, 123, 165, 158, 166, 162, 115, 114, 166, 112, 109, 107, 102, 97, 166,
    190, 190, 190, 190, 190, 190, 190, 190, 190, 190, 190, 190, 190, 190, 191, 191, 191, 191, 191, 191, 191, 191, 191,
    191, 191, 191, 191, 191, 192, 192, 192, 192, 192, 192, 192, 192, 192, 192, 192, 192, 192, 192, 193, 193, 193, 193,
    193, 193, 193, 193, 193, 193, 193, 193, 193, 193, 194, 194, 194, 194, 194, 194, 194, 194, 194, 194, 194, 194, 194,
    194, 195, 195, 195, 195, 195, 195, 195, 195, 195, 195, 195, 195, 195, 195, 196, 196, 196, 196, 196, 196, 196, 196,
    196, 196, 196, 196, 196, 196, 197, 197, 197, 197, 197, 197, 197, 197, 197, 197, 197, 197, 197, 197, 198, 198, 198,
    198, 198, 198, 198, 198, 198, 198, 198, 198, 198, 198, 199, 199, 199, 199, 199, 199, 199, 199, 199, 199, 199, 199,
    199, 199, 200, 200, 200, 200, 200, 200, 200, 200, 200, 200, 200, 200, 200, 200, 201, 201, 201, 201, 201, 201, 201,
    201, 201, 201, 201, 201, 201, 201, 203, 203, 95, 203, 203, 203, 203, 203, 203, 203, 203, 203, 203, 203, 204, 91,
    88, 85, 204, 204, 204, 204, 204, 204, 82, 204, 80, 204, 205, 74, 72, 64, 205, 61, 55, 53, 52, 205, 50, 43, 205,
    205, 206, 36, 33, 29, 206, 28, 27, 26, 25, 0, 206, 206, 206, 206, 207, 0, 0, 0, 207, 0, 0, 0, 0, 0, 207, 207, 207,
    207, 208, 0, 0, 0, 208, 0, 0, 0, 0, 208, 0, 0, 208, 208, 209, 209, 209, 209, 209, 209, 209, 0, 209, 209, 209, 209,
    209, 210, 210, 210, 210, 210, 210, 210, 210, 210, 210, 210, 210, 210, 210, 211, 211, 211, 211, 211, 211, 211, 0,
    211, 211, 211, 211, 211, 212, 212, 212, 212, 212, 212, 212, 212, 212, 212, 212, 212, 212, 212, 213, 213, 213, 213,
    213, 213, 213, 0, 213, 213, 213, 213, 213, 214, 214, 214, 214, 214, 214, 214, 214, 214, 214, 214, 214, 214, 214,
    215, 215, 0, 0, 215, 215, 0, 215, 215, 215, 215, 215, 215, 215, 216, 216, 216, 216, 216, 216, 216, 216, 0, 216,
    216, 216, 216, 216, 217, 217, 217, 217, 217, 0, 217, 217, 217, 217, 217, 217, 217, 217, 189, 189, 189, 189, 189,
    189, 189, 189, 189, 189, 189, 189, 189, 189, 189, 189, 189, 189, 189, 189, 189, 189, 189, 189, 189, 189, 189, 189,
    189, 189, 189, 189, 189>>
====
