\* Kernels packed in every way, whole and damaged. The window has 8 bytes, the
\* input buffer 5; a fixed block takes all the memory behind the loader.
SPECIFICATION Spec
CONSTANTS
  Image <- MCImage
  BEYOND = 0
  WSIZE = 8
  INBUFSIZ = 5
  INPUT_DATA = 4096
  END = 4600
  TOP = 9900
  CodeLists <- MCCodeLists
  Widths = {2, 3}
INVARIANTS
  
  BootsRight
  TablesSafe
  HuftBuildRight
PROPERTIES
  TablesRight
