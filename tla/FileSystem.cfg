\* Two terminals, whose programs have a descriptor each, on every file of the image.
SPECIFICATION ProgramsSpec
CONSTANTS
  p1 = p1
  p2 = p2
  Procs = {p1, p2}
  N_FILES = 3
  BLOCK_SIZE = 2
  N_BLOCKS = 2
  STR_LEN = 2
  Bytes = {0, 1, 2, 3, 4, 5, 6, 7, 8, 9}
  Chars = {".", "a", "b", "r", "c", "l", "y"}
  n_dentry_b = 8
  n_inode_b = 6
  n_data_block_b = 5
  Dentry <- MCDentry
  FileLength <- MCFileLength
  IdxBlock <- MCIdxBlock
  Data <- MCData
  FNames <- MCFNames
  NBYTES = {1, 3}
  Lines <- MCLines
  FILENAME_LEN = 2
  MAGIC <- MCMagic
  ProgramOf <- MCProgramOf
  CAT_BUFSIZE = 3
  LS_BUFSIZE = 1
INVARIANTS ReadsInFile CommandPrintsFile
PROPERTY ImplementsStreams
