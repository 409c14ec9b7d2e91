SPECIFICATION Spec
CONSTANTS
  CHUNK_HEIGHT = 4
  Ids = {0, 9, 1}

  
  
  
PROPERTY
  ReloadMendsHeight
